---- MODULE Spec2Model ----
(***************************************************************************)
(* A model of the locky-puzzle library: the 48-sticker puzzle state, the   *)
(* face turns, the move generator, the depth-bounded searches of solve.rs  *)
(* and the root-parallel solver with its scoped worker threads.            *)
(***************************************************************************)
EXTENDS Integers, Sequences, FiniteSets, TLC

(***************************************************************************)
(* state.rs: faces, directions, stickers, the solved state                 *)
(***************************************************************************)

\* The faces in the order of the sticker array (U, D, F, B, R, L).
FaceOrder == <<"U", "D", "F", "B", "R", "L">>

Face == {"U", "D", "F", "B", "R", "L"}

Direction == {"Clockwise", "Counter", "Neutral"}

\* The indices of the sticker array, as the source numbers them.
Slots == 0..47

\* A State is the sequence of its 48 stickers; TLA+ sequences start at 1, so
\* the sticker the source calls state.0[x] is SlotAt(s, x).
SlotAt(s, x) == s[x + 1]

\* A sequence with its elements computed (the same sequence; TLC otherwise
\* re-evaluates a function constructor at every application).
Eager(seq) == seq \o <<>>

\* Index of a face in the sticker array: face f owns slots 8*k .. 8*k+7.
FaceIdx(f) ==
    CASE f = "U" -> 0 [] f = "D" -> 1 [] f = "F" -> 2 [] f = "B" -> 3 [] f = "R" -> 4 [] f = "L" -> 5

\* State::face: the 8 stickers of a face, as a sequence (slot 0 first).
face(s, f) == SubSeq(s, FaceIdx(f) * 8 + 1, FaceIdx(f) * 8 + 8)

\* State::solved: the native direction of each face and the two slots that
\* carry its arrows.
SolvedDirections == <<"Counter", "Clockwise", "Clockwise", "Counter", "Clockwise", "Counter">>

SolvedArrowIdxs == <<{1, 6}, {1, 6}, {3, 4}, {3, 4}, {1, 6}, {1, 6}>>

solved ==
    Eager([p \in 1..48 |->
        LET i == p - 1 IN
        [face |-> FaceOrder[(i \div 8) + 1],
         direction |-> IF (i % 8) \in SolvedArrowIdxs[(i \div 8) + 1]
                       THEN SolvedDirections[(i \div 8) + 1]
                       ELSE "Neutral"]])

\* A test that looks at the U face only.
is_solved_u_face_only(s) == \A i \in 0..7 : SlotAt(s, i).face = "U"

\* State::is_solved: every sticker of every face carries the label of the
\* face; directions are not looked at.
is_solved(s) == \A i \in Slots : SlotAt(s, i).face = FaceOrder[(i \div 8) + 1]

\* A test that asks only for two arrows on the face.
is_locked_two_arrows(s, f) ==
    Cardinality({j \in 1..8 : face(s, f)[j].direction # "Neutral"}) >= 2

\* State::is_locked: the loop over the 8 stickers of the face keeps the
\* first non-neutral direction it meets, and reports a lock as soon as a
\* later non-neutral sticker differs from it.
is_locked(s, f) ==
    \E stickers \in {face(s, f)} :
        \E j \in 1..8 :
            /\ stickers[j].direction # "Neutral"
            /\ \A i \in 1..(j - 1) : stickers[i].direction = "Neutral"
            /\ \E k \in (j + 1)..8 :
                   /\ stickers[k].direction # "Neutral"
                   /\ stickers[k].direction # stickers[j].direction

(***************************************************************************)
(* moves.rs: the 18 moves and their application                            *)
(***************************************************************************)

Turns == {"Clockwise", "Double", "Counter"}

TurnsOrder == <<"Clockwise", "Double", "Counter">>

Move == [face : Face, turns : Turns]

\* ALL_MOVES: U, U2, U', D, D2, D', F, ..., L, L2, L'.
ALL_MOVES ==
    Eager([k \in 1..18 |->
        [face |-> FaceOrder[((k - 1) \div 3) + 1], turns |-> TurnsOrder[((k - 1) % 3) + 1]]])

\* The position of a move in ALL_MOVES (1-based).
MoveIdx(m) ==
    FaceIdx(m.face) * 3
        + (CASE m.turns = "Clockwise" -> 1 [] m.turns = "Double" -> 2 [] m.turns = "Counter" -> 3)

\* A swap that loses the sticker at a.
Swap_overwrite(list, a, b) == [list EXCEPT ![a] = list[b]]

\* slice::swap, on positions a and b of a sequence.
Swap(list, a, b) == [list EXCEPT ![a] = list[b], ![b] = list[a]]

\* permute_indirect with Counter swapping the way Clockwise does.
permute_indirect_one_way(turns, list, indices) ==
    IF turns = "Double"
    THEN Swap(Swap(list, indices[1], indices[3]), indices[2], indices[4])
    ELSE Swap(Swap(Swap(list, indices[1], indices[4]), indices[2], indices[4]),
              indices[3], indices[4])

\* Turns::permute_indirect: the three (two) swaps of each turn, on the
\* positions named by indices (the four indices and the positions they name
\* are 1-based here).
permute_indirect(turns, list, indices) ==
    CASE turns = "Clockwise" ->
            Swap(Swap(Swap(list, indices[1], indices[4]), indices[2], indices[4]),
                 indices[3], indices[4])
      [] turns = "Double" ->
            Swap(Swap(list, indices[1], indices[3]), indices[2], indices[4])
      [] turns = "Counter" ->
            Swap(Swap(Swap(list, indices[1], indices[4]), indices[1], indices[3]),
                 indices[1], indices[2])

\* Turns::permute: the same swaps on a 4-element list (1-based).
permute(turns, list) == permute_indirect(turns, list, <<1, 2, 3, 4>>)

\* face_ring: the 12 stickers around a face, in 4 groups of 3.
face_ring(f) ==
    LET u == 0  d == 8  ff == 16  b == 24  r == 32  l == 40 IN
    CASE f = "U" -> << <<b + 2, b + 1, b>>, <<r + 2, r + 1, r>>,
                       <<ff + 2, ff + 1, ff>>, <<l + 2, l + 1, l>> >>
      [] f = "D" -> << <<ff + 5, ff + 6, ff + 7>>, <<r + 5, r + 6, r + 7>>,
                       <<b + 5, b + 6, b + 7>>, <<l + 5, l + 6, l + 7>> >>
      [] f = "F" -> << <<u + 5, u + 6, u + 7>>, <<r, r + 3, r + 5>>,
                       <<d + 2, d + 1, d>>, <<l + 7, l + 4, l + 2>> >>
      [] f = "B" -> << <<u + 2, u + 1, u>>, <<l, l + 3, l + 5>>,
                       <<d + 5, d + 6, d + 7>>, <<r + 7, r + 4, r + 2>> >>
      [] f = "R" -> << <<u + 7, u + 4, u + 2>>, <<b, b + 3, b + 5>>,
                       <<d + 7, d + 4, d + 2>>, <<ff + 7, ff + 4, ff + 2>> >>
      [] f = "L" -> << <<u, u + 3, u + 5>>, <<ff, ff + 3, ff + 5>>,
                       <<d, d + 3, d + 5>>, <<b + 7, b + 4, b + 2>> >>

\* apply_face that leaves the four edge stickers of the face where they are.
apply_face_corners_only(turns, s, f) ==
    permute_indirect(turns, s, <<FaceIdx(f) * 8 + 1, FaceIdx(f) * 8 + 3, FaceIdx(f) * 8 + 8,
                                 FaceIdx(f) * 8 + 6>>)

\* Turns::apply_face: the corner 4-cycle and the edge 4-cycle of the face's
\* own 8 stickers (face_mut gives the slice starting at the face's base).
apply_face(turns, s, f) ==
    LET base == FaceIdx(f) * 8 + 1
        corners == permute_indirect(turns, s, <<base + 0, base + 2, base + 7, base + 5>>)
    IN  permute_indirect(turns, corners, <<base + 1, base + 4, base + 6, base + 3>>)

\* Turns::apply_ring: copy the ring out, permute the 4 groups, write it back.
apply_ring(turns, s, f) ==
    LET indices == face_ring(f)
        cur_stickers == [i \in 1..4 |-> [j \in 1..3 |-> s[indices[i][j] + 1]]]
        permuted == permute(turns, cur_stickers)
    IN  [p \in 1..48 |->
            IF \E i \in 1..4, j \in 1..3 : indices[i][j] = p - 1
            THEN LET ij == CHOOSE ij \in (1..4) \X (1..3) : indices[ij[1]][ij[2]] = p - 1
                 IN  permuted[ij[1]][ij[2]]
            ELSE s[p]]

\* Move::apply, step by step as in the source.
move_apply(m, s) == apply_ring(m.turns, apply_face(m.turns, s, m.face), m.face)

\* The moves only move stickers, so each move is a fixed rearrangement of
\* the 48 slots: SlotAt(SlotSource[k], x) is the slot whose sticker
\* ALL_MOVES[k] brings to slot x, obtained by running Move::apply on the
\* slot numbers.
SlotSource == Eager([k \in 1..18 |-> Eager(move_apply(ALL_MOVES[k], [p \in 1..48 |-> p - 1]))])

\* Move::apply through the slot table (same result as move_apply).
Apply(m, s) ==
    LET src == SlotSource[MoveIdx(m)] IN Eager([p \in 1..48 |-> s[src[p] + 1]])

\* Move::inverse: the same face turned back.
Move_inverse(m) ==
    [face |-> m.face,
     turns |-> CASE m.turns = "Clockwise" -> "Counter"
                 [] m.turns = "Double" -> "Double"
                 [] m.turns = "Counter" -> "Clockwise"]

\* Algo::apply: the moves left to right.
RECURSIVE algo_apply(_, _)
algo_apply(algo, s) ==
    IF algo = <<>> THEN s ELSE algo_apply(Tail(algo), Apply(Head(algo), s))

\* state_from_moves: the moves applied one after the other to the solved
\* state (the state read_state hands out for a scramble).
state_from_moves(algo) == algo_apply(algo, solved)

(***************************************************************************)
(* move_gen.rs: the move generator                                         *)
(***************************************************************************)

Axis == {"UD", "FB", "RL"}

AxisState == {"Enabled", "HalfDisabled", "Disabled"}

MoveGen == [axis : Axis, axis_state : AxisState]

\* MoveGen::new.
MoveGen_new == [axis |-> "UD", axis_state |-> "Enabled"]

\* A decomposition that calls every face the primary one of its axis.
decompose_face_all_primary(f) ==
    [axis |-> CASE f \in {"U", "D"} -> "UD" [] f \in {"F", "B"} -> "FB" [] f \in {"R", "L"} -> "RL",
     primary |-> TRUE]

\* decompose_face: the axis of a face and whether it is the axis's primary face.
decompose_face(f) ==
    CASE f = "U" -> [axis |-> "UD", primary |-> TRUE]
      [] f = "D" -> [axis |-> "UD", primary |-> FALSE]
      [] f = "F" -> [axis |-> "FB", primary |-> TRUE]
      [] f = "B" -> [axis |-> "FB", primary |-> FALSE]
      [] f = "R" -> [axis |-> "RL", primary |-> TRUE]
      [] f = "L" -> [axis |-> "RL", primary |-> FALSE]

\* An iterator that, after the primary face of an axis, yields both faces
\* of that axis again.
RECURSIVE MoveGenIter_next_lenient(_, _)
MoveGenIter_next_lenient(gen, idx) ==
    IF idx = 18
    THEN [some |-> FALSE, gen |-> gen, move |-> ALL_MOVES[1], idx |-> idx]
    ELSE LET m == ALL_MOVES[idx + 1]
             d == decompose_face(m.face)
         IN  IF d.axis # gen.axis \/ gen.axis_state \in {"Enabled", "HalfDisabled"}
             THEN [some |-> TRUE,
                   gen |-> [axis |-> d.axis,
                            axis_state |-> IF d.primary THEN "HalfDisabled" ELSE "Disabled"],
                   move |-> m, idx |-> idx + 1]
             ELSE MoveGenIter_next_lenient(gen, idx + 1)

\* An iterator that never lets the second face of an axis follow the first.
RECURSIVE MoveGenIter_next_strict(_, _)
MoveGenIter_next_strict(gen, idx) ==
    IF idx = 18
    THEN [some |-> FALSE, gen |-> gen, move |-> ALL_MOVES[1], idx |-> idx]
    ELSE LET m == ALL_MOVES[idx + 1]
             d == decompose_face(m.face)
         IN  IF d.axis # gen.axis \/ gen.axis_state = "Enabled"
             THEN [some |-> TRUE,
                   gen |-> [axis |-> d.axis,
                            axis_state |-> IF d.primary THEN "HalfDisabled" ELSE "Disabled"],
                   move |-> m, idx |-> idx + 1]
             ELSE MoveGenIter_next_strict(gen, idx + 1)

\* MoveGenIter::next. The iterator is (state, idx) with idx counting the
\* moves of ALL_MOVES already looked at (0-based as in the source). The
\* result is either none (some = FALSE) or the yielded (MoveGen, Move)
\* together with the iterator's new idx.
RECURSIVE MoveGenIter_next(_, _)
MoveGenIter_next(gen, idx) ==
    IF idx = 18
    THEN [some |-> FALSE, gen |-> gen, move |-> ALL_MOVES[1], idx |-> idx]
    ELSE LET m == ALL_MOVES[idx + 1]
             d == decompose_face(m.face)
         IN  IF d.axis # gen.axis \/ gen.axis_state = "Enabled"
             THEN [some |-> TRUE,
                   gen |-> [axis |-> d.axis,
                            axis_state |-> IF d.primary THEN "HalfDisabled" ELSE "Disabled"],
                   move |-> m, idx |-> idx + 1]
             ELSE IF ~d.primary /\ gen.axis_state = "HalfDisabled"
                  THEN [some |-> TRUE,
                        gen |-> [axis |-> d.axis, axis_state |-> "Disabled"],
                        move |-> m, idx |-> idx + 1]
                  ELSE MoveGenIter_next(gen, idx + 1)

(***************************************************************************)
(* proj.rs: projections                                                    *)
(***************************************************************************)

\* CORNERS: the UD/FB/RL sticker of each of the 8 corners.
CORNERS == << <<0, 26, 40>>, <<2, 24, 34>>, <<5, 16, 42>>, <<7, 18, 32>>,
              <<13, 31, 45>>, <<15, 29, 39>>, <<8, 21, 47>>, <<10, 23, 37>> >>

\* dir_u8 that tells an arrow from no arrow only.
dir_u8_arrow_or_not(dir) == CASE dir = "Clockwise" -> 0 [] dir = "Counter" -> 0 [] dir = "Neutral" -> 2

\* LockProj::dir_u8.
dir_u8(dir) == CASE dir = "Clockwise" -> 0 [] dir = "Counter" -> 1 [] dir = "Neutral" -> 2

\* LockProj::dirs_u8: four 2-bit fields or-ed into one u8 (the fields do
\* not overlap, so the or is the sum).
dirs_u8(d1, d2, d3, d4) == dir_u8(d1) + dir_u8(d2) * 4 + dir_u8(d3) * 16 + dir_u8(d4) * 64

\* LockProj::project reading the U face for every entry.
LockProj_project_u_face(s) ==
    [face_idx \in 0..5 |->
        dirs_u8(SlotAt(s, 1).direction, SlotAt(s, 3).direction,
                SlotAt(s, 4).direction, SlotAt(s, 6).direction)]

\* LockProj::project: the directions at slots 1, 3, 4, 6 of each face.
LockProj_project(s) ==
    [face_idx \in 0..5 |->
        dirs_u8(SlotAt(s, face_idx * 8 + 1).direction, SlotAt(s, face_idx * 8 + 3).direction,
                SlotAt(s, face_idx * 8 + 4).direction, SlotAt(s, face_idx * 8 + 6).direction)]

\* CornerProj::face_u8 and faces_u8.
Corner_face_u8(f) == FaceIdx(f)

faces_u8(f1, f2) == Corner_face_u8(f1) + Corner_face_u8(f2) * 16

\* CornerProj::project_with_lock: the labels at the corner slots 0, 2, 5, 7
\* of the first four faces.
CornerProj_project(s) ==
    [lock |-> LockProj_project(s),
     packed_corners |->
        [c \in 0..7 |->
            IF c % 2 = 0
            THEN faces_u8(SlotAt(s, (c \div 2) * 8 + 0).face, SlotAt(s, (c \div 2) * 8 + 2).face)
            ELSE faces_u8(SlotAt(s, (c \div 2) * 8 + 5).face, SlotAt(s, (c \div 2) * 8 + 7).face)]]

\* ArrowAxisProj::sticker_u8: the axis of the label of an arrowed sticker.
sticker_u8(sticker) ==
    IF sticker.direction = "Neutral" THEN 0
    ELSE CASE sticker.face \in {"U", "D"} -> 0
           [] sticker.face \in {"F", "B"} -> 1
           [] sticker.face \in {"R", "L"} -> 2

\* ArrowAxisProj::face_u8 (the argument is the face's 8 stickers, 1-based).
Arrow_face_u8(stickers) ==
    sticker_u8(stickers[2]) + sticker_u8(stickers[4]) * 4
        + sticker_u8(stickers[5]) * 16 + sticker_u8(stickers[7]) * 64

\* ArrowAxisProj::project_with_lock.
ArrowAxisProj_project(s) ==
    [lock |-> LockProj_project(s),
     packed_axes |-> [face_idx \in 0..5 |-> Arrow_face_u8(face(s, FaceOrder[face_idx + 1]))]]

\* make_co!: two bits per corner, shifted in from the right in CORNERS order
\* (a u16; 8 corners fill it exactly).
RECURSIVE co_orientations(_, _, _, _)
co_orientations(s, face1, face2, c) ==
    IF c = 0 THEN 0
    ELSE LET ud_face == SlotAt(s, CORNERS[c][1]).face
             fb_face == SlotAt(s, CORNERS[c][2]).face
             code == IF ud_face = face1 \/ ud_face = face2 THEN 0
                     ELSE IF fb_face = face1 \/ fb_face = face2 THEN 1
                     ELSE 2
         IN  ((co_orientations(s, face1, face2, c - 1) * 4) % 65536) + code

make_co(s, face1, face2) ==
    [lock |-> LockProj_project(s), packed_co |-> co_orientations(s, face1, face2, 8)]

\* make_corner_axis with the comparison made against $face2.
RECURSIVE corner_axis_faces_second_face(_, _, _, _)
corner_axis_faces_second_face(s, face1, face2, c) ==
    IF c = 0 THEN 0
    ELSE LET ud_face == SlotAt(s, CORNERS[c][1]).face
             fb_face == SlotAt(s, CORNERS[c][2]).face
             rl_face == SlotAt(s, CORNERS[c][3]).face
             bit == IF face2 = ud_face \/ face2 = fb_face \/ face2 = rl_face THEN 0 ELSE 1
         IN  ((corner_axis_faces_second_face(s, face1, face2, c - 1) * 2) % 256) + bit

\* make_corner_axis!: one bit per corner, shifted in from the right in
\* CORNERS order (a u8). Only face1 is compared with the corner's stickers.
RECURSIVE corner_axis_faces(_, _, _, _)
corner_axis_faces(s, face1, face2, c) ==
    IF c = 0 THEN 0
    ELSE LET ud_face == SlotAt(s, CORNERS[c][1]).face
             fb_face == SlotAt(s, CORNERS[c][2]).face
             rl_face == SlotAt(s, CORNERS[c][3]).face
             bit == IF face1 = ud_face \/ face1 = fb_face \/ face1 = rl_face THEN 0 ELSE 1
         IN  ((corner_axis_faces(s, face1, face2, c - 1) * 2) % 256) + bit

make_corner_axis(s, face1, face2) ==
    [lock |-> LockProj_project(s), packed_faces |-> corner_axis_faces(s, face1, face2, 8)]

\* The projection types of proj.rs.
ProjTypes == {"LockProj", "CornerProj", "ArrowAxisProj", "CoUdProj", "CoFbProj", "CoRlProj",
              "CornerUdProj", "CornerFbProj", "CornerRlProj"}

\* PairProj<A, B>: the pair of the two projections.
PairProj(a, b) == <<a, b>>

\* Proj::project for each implementing type.
project(P, s) ==
    CASE P = "LockProj" -> LockProj_project(s)
      [] P = "CornerProj" -> CornerProj_project(s)
      [] P = "ArrowAxisProj" -> ArrowAxisProj_project(s)
      [] P = "CoUdProj" -> make_co(s, "U", "D")
      [] P = "CoFbProj" -> make_co(s, "F", "B")
      [] P = "CoRlProj" -> make_co(s, "R", "L")
      [] P = "CornerUdProj" -> make_corner_axis(s, "U", "D")
      [] P = "CornerFbProj" -> make_corner_axis(s, "F", "B")
      [] P = "CornerRlProj" -> make_corner_axis(s, "R", "L")
      [] P = "Combo1Proj" -> PairProj(PairProj(ArrowAxisProj_project(s), make_co(s, "F", "B")),
                                      PairProj(make_co(s, "R", "L"), make_co(s, "U", "D")))
      [] P = "Combo2Proj" -> PairProj(ArrowAxisProj_project(s), CornerProj_project(s))

(***************************************************************************)
(* heuristic.rs: lower bounds                                              *)
(***************************************************************************)

\* NopHeuristic.
NopHeuristic == [kind |-> "Nop"]

\* An implementation of the Heuristic trait whose lower_bound can panic;
\* when it returns, it returns 0.
FaultyHeuristic == [kind |-> "Faulty"]

\* ProjHeuristic<P>{table, default}.
ProjHeuristic(P, table, default) ==
    [kind |-> "Proj", P |-> P, table |-> table, default |-> default]

\* MaxHeuristic(list).
MaxHeuristic(list) == [kind |-> "Max", list |-> list]

\* u8::max.
max(a, b) == IF a >= b THEN a ELSE b

\* ProjHeuristic::lower_bound: the stored value, or default.
ProjHeuristic_lower_bound(h, s) ==
    LET proj == project(h.P, s)
    IN  IF proj \in DOMAIN h.table THEN h.table[proj] ELSE h.default

\* Heuristic::lower_bound (the value it returns).
RECURSIVE lower_bound(_, _)
RECURSIVE MaxHeuristic_lower_bound(_, _, _)
lower_bound(h, s) ==
    CASE h.kind = "Nop" -> 0
      [] h.kind = "Faulty" -> 0
      [] h.kind = "Proj" -> ProjHeuristic_lower_bound(h, s)
      [] h.kind = "Max" -> MaxHeuristic_lower_bound(h.list, s, 0)

\* MaxHeuristic::lower_bound: the loop over the list, res so far.
MaxHeuristic_lower_bound(list, s, res) ==
    IF list = <<>> THEN res
    ELSE MaxHeuristic_lower_bound(Tail(list), s, max(lower_bound(Head(list), s), res))

\* Levels of the breadth-first search of generate that are followed; a
\* deeper table is complete up to this level only.
MaxGenDepth == 3

\* The largest u8.
U8_MAX == 255

\* generate: the innermost loop, `for (new_moves, m) in moves`, from idx on;
\* bfs is [table, states], dist is i + 1.
RECURSIVE generate_moves(_, _, _, _, _, _)
generate_insert(bfs, proj, dist, new_moves, new_state) ==
    IF proj \in DOMAIN bfs.table THEN bfs
    ELSE [table |-> bfs.table @@ (proj :> dist),
          states |-> Append(bfs.states, [gen |-> new_moves, state |-> new_state])]

\* A generate that turns locked faces too.
generate_try_ignores_locks(bfs, P, state, nx, dist) ==
    generate_insert(bfs, project(P, Apply(nx.move, state)), dist, nx.gen,
                    Apply(nx.move, state))

generate_try(bfs, P, state, nx, dist) ==
    IF is_locked(state, nx.move.face) THEN bfs
    ELSE generate_insert(bfs, project(P, Apply(nx.move, state)), dist, nx.gen,
                         Apply(nx.move, state))

\* A generate that tries only the first move of each generator.
generate_moves_step_first_only(bfs, P, moves, state, nx, dist) ==
    IF ~nx.some THEN bfs ELSE generate_try(bfs, P, state, nx, dist)

generate_moves_step(bfs, P, moves, state, nx, dist) ==
    IF ~nx.some THEN bfs
    ELSE generate_moves(generate_try(bfs, P, state, nx, dist), P, moves, state, nx.idx, dist)

generate_moves(bfs, P, moves, state, idx, dist) ==
    generate_moves_step(bfs, P, moves, state, MoveGenIter_next(moves, idx), dist)

\* generate: `for _ in 0..pop_size`, each turn popping the front pair
\* (pop_front().unwrap(): the queue holds at least pop_size pairs).
RECURSIVE generate_pop(_, _, _, _)
generate_pop(bfs, P, pop_size, dist) ==
    IF pop_size = 0 \/ Len(bfs.states) = 0 THEN bfs
    ELSE generate_pop(generate_moves([table |-> bfs.table, states |-> Tail(bfs.states)],
                                     P, Head(bfs.states).gen, Head(bfs.states).state, 0, dist),
                      P, pop_size - 1, dist)

\* generate: `for i in 0..depth`, left when the queue is empty; followed for
\* MaxGenDepth levels.
RECURSIVE generate_loop(_, _, _, _)
generate_loop(bfs, P, i, depth) ==
    IF i = depth \/ i = MaxGenDepth \/ Len(bfs.states) = 0 THEN bfs
    ELSE generate_loop(generate_pop(bfs, P, Len(bfs.states), i + 1), P, i + 1, depth)

\* The table generate builds.
generate_table(P, depth) ==
    generate_loop([table |-> (project(P, solved) :> 0),
                   states |-> <<[gen |-> MoveGen_new, state |-> solved]>>],
                  P, 0, depth).table

\* How the crate is built: with or without overflow checks.
Builds == {"debug", "release"}

\* ProjHeuristic::generate. `depth + 1` is a u8 addition: past U8_MAX it
\* panics when overflow checks are on and wraps when they are off.
generate(P, depth, build) ==
    IF depth + 1 > U8_MAX /\ build = "debug"
    THEN [panicked |-> TRUE]
    ELSE [panicked |-> FALSE,
          h |-> ProjHeuristic(P, generate_table(P, depth), (depth + 1) % (U8_MAX + 1))]

(***************************************************************************)
(* solve.rs: the depth-bounded searches                                    *)
(***************************************************************************)

\* The absent Option.
None == [some |-> FALSE]

Some(algo) == [some |-> TRUE, algo |-> algo]

\* A search step that turns locked faces too.
search_step_never_skips(s, m) == FALSE

\* search_step!: the move is skipped (`continue`) when its face is locked.
search_step_skips(s, m) == is_locked(s, m.face)

\* solve_search: depth-first search for the solved state. The result is the
\* returned bool together with the history vector as the call leaves it.
\* solve_search_loop is the `for (new_gen, m) in gen` loop, with the
\* iterator's idx; search_step! skips a move whose face is locked.
RECURSIVE solve_search(_, _, _, _, _), solve_search_loop(_, _, _, _, _, _)
solve_search(s, h, depth, history, gen) ==
    IF is_solved(s) THEN [ok |-> TRUE, history |-> history]
    ELSE IF depth = 0 \/ depth < lower_bound(h, s) THEN [ok |-> FALSE, history |-> history]
    ELSE solve_search_loop(s, h, depth, history, gen, 0)

solve_search_loop(s, h, depth, history, gen, idx) ==
    LET nx == MoveGenIter_next(gen, idx) IN
    IF ~nx.some THEN [ok |-> FALSE, history |-> history]
    ELSE IF search_step_skips(s, nx.move)
         THEN solve_search_loop(s, h, depth, history, gen, nx.idx)
         ELSE LET r == solve_search(Apply(nx.move, s), h, depth - 1,
                                    Append(history, nx.move), nx.gen)
              IN  IF r.ok THEN r
                  ELSE solve_search_loop(s, h, depth, history, gen, nx.idx)

\* solve_serial.
solve_serial(s, h, depth) ==
    LET r == solve_search(s, h, depth, <<>>, MoveGen_new)
    IN  IF r.ok THEN Some(r.history) ELSE None

\* proj_solve_search: the same search with the goal `solution == projection`.
RECURSIVE proj_solve_search(_, _, _, _, _, _, _), proj_solve_search_loop(_, _, _, _, _, _, _, _)
proj_solve_search(P, solution, s, h, depth, history, gen) ==
    IF solution = project(P, s) THEN [ok |-> TRUE, history |-> history]
    ELSE IF depth = 0 \/ depth < lower_bound(h, s) THEN [ok |-> FALSE, history |-> history]
    ELSE proj_solve_search_loop(P, solution, s, h, depth, history, gen, 0)

proj_solve_search_loop(P, solution, s, h, depth, history, gen, idx) ==
    LET nx == MoveGenIter_next(gen, idx) IN
    IF ~nx.some THEN [ok |-> FALSE, history |-> history]
    ELSE IF search_step_skips(s, nx.move)
         THEN proj_solve_search_loop(P, solution, s, h, depth, history, gen, nx.idx)
         ELSE LET r == proj_solve_search(P, solution, Apply(nx.move, s), h, depth - 1,
                                         Append(history, nx.move), nx.gen)
              IN  IF r.ok THEN r
                  ELSE proj_solve_search_loop(P, solution, s, h, depth, history, gen, nx.idx)

\* proj_solve_serial aiming at the projection of its own input.
proj_solve_serial_own_goal(P, s, h, depth) ==
    LET r == proj_solve_search(P, project(P, s), s, h, depth, <<>>, MoveGen_new)
    IN  IF r.ok THEN Some(r.history) ELSE None

\* proj_solve_serial.
proj_solve_serial(P, s, h, depth) ==
    LET r == proj_solve_search(P, project(P, solved), s, h, depth, <<>>, MoveGen_new)
    IN  IF r.ok THEN Some(r.history) ELSE None

\* The function a call names: solve, or proj_solve::<P>.
SolveFn == [name |-> "solve"]

ProjSolveFn(P) == [name |-> "proj_solve", P |-> P]

\* The goal test of the search: is_solved, or the projection being that of
\* the solved state.
at_goal(fn, s) ==
    IF fn.name = "solve" THEN is_solved(s) ELSE project(fn.P, solved) = project(fn.P, s)

\* $serial_fn of parallel_search!.
serial_fn(fn, s, h, depth) ==
    IF fn.name = "solve" THEN solve_serial(s, h, depth) ELSE proj_solve_serial(fn.P, s, h, depth)

\* $search_fn of parallel_search!; proj_solve's closure projects the solved
\* state itself.
search_fn(fn, s, h, depth, history, gen) ==
    IF fn.name = "solve"
    THEN solve_search(s, h, depth, history, gen)
    ELSE proj_solve_search(fn.P, project(fn.P, solved), s, h, depth, history, gen)

\* The closure a worker runs: clone the state, apply m, search with one
\* move less; `found` says whether the history is sent.
worker_closure(fn, s, h, depth, gen, m) ==
    LET r == search_fn(fn, Apply(m, s), h, depth - 1, <<m>>, gen)
    IN  [move |-> m, found |-> r.ok, hist |-> r.history]

\* A spawn loop that stops after the first worker.
RECURSIVE spawn_loop_first_only(_, _, _, _, _)
spawn_loop_first_only(fn, s, h, depth, idx) ==
    LET nx == MoveGenIter_next(MoveGen_new, idx) IN
    IF ~nx.some THEN <<>>
    ELSE IF is_locked(s, nx.move.face)
         THEN spawn_loop_first_only(fn, s, h, depth, nx.idx)
         ELSE <<worker_closure(fn, s, h, depth, nx.gen, nx.move)>>

\* The spawn loop of parallel_search!: one worker per move MoveGen::new()
\* yields whose face is not locked, in the order of the Vec `threads`.
RECURSIVE spawn_loop(_, _, _, _, _)
spawn_loop(fn, s, h, depth, idx) ==
    LET nx == MoveGenIter_next(MoveGen_new, idx) IN
    IF ~nx.some THEN <<>>
    ELSE IF is_locked(s, nx.move.face)
         THEN spawn_loop(fn, s, h, depth, nx.idx)
         ELSE <<worker_closure(fn, s, h, depth, nx.gen, nx.move)>>
                  \o spawn_loop(fn, s, h, depth, nx.idx)

\* A test that keeps only the first history.
is_better_first_only(solution, best_solution) == ~best_solution.some

\* The test of the receive loop: the first history, or a strictly shorter one.
is_better(solution, best_solution) ==
    ~best_solution.some \/ Len(solution) < Len(best_solution.algo)

\* An iteration that keeps whatever arrived last.
receive_latest(best_solution, solution) == Some(solution)

\* One iteration of `for solution in recv`.
receive(best_solution, solution) ==
    IF is_better(solution, best_solution) THEN Some(solution) ELSE best_solution

\* The histories the workers of a call send, in spawn order.
sent_histories(ws) ==
    LET senders == SelectSeq(ws, LAMBDA w : w.found)
    IN  [i \in 1..Len(senders) |-> senders[i].hist]

\* What the receive loop can end with, over all arrival orders: nothing if
\* nothing was sent, else any sent history that no other one is strictly
\* shorter than (it is kept if it arrives before the others of its length).
receive_results(msgs) ==
    IF msgs = <<>> THEN {None}
    ELSE {Some(msgs[i]) : i \in {j \in 1..Len(msgs) : \A k \in 1..Len(msgs) : Len(msgs[j]) <= Len(msgs[k])}}

\* parallel_search!, as the set of values a call can return.
parallel_search(fn, s, h, depth) ==
    IF depth = 0 THEN {serial_fn(fn, s, h, depth)}
    ELSE receive_results(sent_histories(spawn_loop(fn, s, h, depth, 0)))

(***************************************************************************)
(* Bounds and inputs                                                       *)
(***************************************************************************)

\* Longest scramble built move by move.
MaxScramble == 2

\* Largest depth a scramble is searched to, and the last depth the solve
\* tool tries (the tool itself goes on to 254).
MaxDepth == 2

Mv(f, t) == [face |-> f, turns |-> t]

\* B D2 B' U2 L2 (tests::not_enough_depth, tests::five_move_scramble).
FiveMoveScramble ==
    <<Mv("B", "Clockwise"), Mv("D", "Double"), Mv("B", "Counter"), Mv("U", "Double"),
      Mv("L", "Double")>>

\* R U R' U' R' F R2 U' R' U' R U R' F' (tests::proj_simpler_solution).
TPerm ==
    <<Mv("R", "Clockwise"), Mv("U", "Clockwise"), Mv("R", "Counter"), Mv("U", "Counter"),
      Mv("R", "Counter"), Mv("F", "Clockwise"), Mv("R", "Double"), Mv("U", "Counter"),
      Mv("R", "Counter"), Mv("U", "Counter"), Mv("R", "Clockwise"), Mv("U", "Clockwise"),
      Mv("R", "Counter"), Mv("F", "Counter")>>

\* U2 D2 B2 R2: four faces locked, two solutions R2 B2 U2 D2 and
\* R2 F2 U2 D2 F2 B2 under the same first move.
HalfTurns4 == <<Mv("U", "Double"), Mv("D", "Double"), Mv("B", "Double"), Mv("R", "Double")>>

\* U2 F2: four faces locked, solutions F2 U2 and B2 U2 D2 F2 B2 D2 under
\* different first moves.
HalfTurns2 == <<Mv("U", "Double"), Mv("F", "Double")>>

\* U2 F2 R2: every face locked.
HalfTurns3 == <<Mv("U", "Double"), Mv("F", "Double"), Mv("R", "Double")>>

\* The scrambles read_state is given by name, and the depths each is
\* searched to.
\* U D' F U' D: the directions are where they are when solved, the arrows
\* are not on their axes.
ShiftedArrows ==
    <<Mv("U", "Clockwise"), Mv("D", "Counter"), Mv("F", "Clockwise"), Mv("U", "Counter"),
      Mv("D", "Clockwise")>>

\* R' D' R U' R' D R U: three corners cycled and twisted, the edges in place.
CornerCycle ==
    <<Mv("R", "Counter"), Mv("D", "Counter"), Mv("R", "Clockwise"), Mv("U", "Counter"),
      Mv("R", "Counter"), Mv("D", "Clockwise"), Mv("R", "Clockwise"), Mv("U", "Clockwise")>>

\* U D' F2 U' D: arrows and corner orientations as when solved, corners
\* not in place.
CornerSwap ==
    <<Mv("U", "Clockwise"), Mv("D", "Counter"), Mv("F", "Double"), Mv("U", "Counter"),
      Mv("D", "Clockwise")>>

\* U2 D2 F2 U2 D2 B2: arrows and corners as when solved, the state is not.
EdgeSwap ==
    <<Mv("U", "Double"), Mv("D", "Double"), Mv("F", "Double"), Mv("U", "Double"),
      Mv("D", "Double"), Mv("B", "Double")>>

NamedInputs ==
    <<FiveMoveScramble, TPerm, HalfTurns4, HalfTurns2, HalfTurns3, ShiftedArrows, CornerCycle,
      CornerSwap, EdgeSwap>>

NamedDepths == <<{4}, {1}, {0, 4, 6}, {1, 2}, {0, 1}, {}, {}, {}, {}>>

NamedProjDepths == <<{2}, {1}, {4}, {4}, {1}, {}, {}, {}, {}>>

\* Named inputs of the calls taken as one step, and of the calls followed
\* thread by thread (at most six workers).
SerialInputs == {1, 2}

ThreadedInputs == {3, 4, 5}

\* The projections proj_solve is called with.
ProjChoices == {"LockProj", "CornerProj"}

Fns == {SolveFn} \cup {ProjSolveFn(P) : P \in ProjChoices}

(***************************************************************************)
(* The state machine                                                       *)
(***************************************************************************)

VARIABLES
    state,          \* the State the caller holds
    applied,        \* the moves applied to the solved state to get it
    named,          \* index of the named input read, 0 for none
    pc,             \* where the caller is
    call,           \* the arguments of the call made
    ret,            \* the value the call returned
    depth,          \* the depth counter of the solve tool's loop
    workers,        \* the Vec `threads`: one record per spawned worker
    chan,           \* histories sent and not yet received
    best_solution,  \* the receive loop's best_solution
    received,       \* the histories received, in arrival order
    next_join,      \* index of the next ThreadScope to drop
    iter,           \* a MoveGenIter: the generator iterated and its idx
    item,           \* what the last call of next() on iter returned
    taken,          \* the moves taken from the generators so far
    yields,         \* the moves iter has yielded so far
    heur,           \* the ProjHeuristic generate() built
    ms              \* MultiStep::solve: the solver, its locals and its position

vars == <<state, applied, named, pc, call, ret, depth, workers, chan, best_solution,
          received, next_join, iter, item, taken, yields, heur, ms>>

seq_vars == <<state, applied, named>>

thread_vars == <<workers, chan, best_solution, received, next_join>>

gen_vars == <<iter, item, taken, yields>>

\* What the searches of solve.rs leave alone.
other_vars == <<gen_vars, heur, ms>>

\* No heuristic generated, MultiStep::solve not called.
NoHeur == [P |-> "none"]

NoMs == [pc |-> "none"]

NoCall == [op |-> "none", fn |-> SolveFn, heuristic |-> NopHeuristic, depth |-> 0]

Init ==
    /\ state = solved
    /\ applied = <<>>
    /\ named = 0
    /\ pc = "ready"
    /\ call = NoCall
    /\ ret = None
    /\ depth = 0
    /\ workers = <<>>
    /\ chan = <<>>
    /\ best_solution = None
    /\ received = <<>>
    /\ next_join = 1
    /\ iter = [state |-> MoveGen_new, idx |-> 0]
    /\ item = [some |-> FALSE]
    /\ taken = <<>>
    /\ yields = <<>>
    /\ heur = NoHeur
    /\ ms = NoMs

\* The depths the current input is searched to by fn.
Depths(fn) ==
    IF named = 0 THEN 0..MaxDepth
    ELSE IF fn.name = "solve" THEN NamedDepths[named] ELSE NamedProjDepths[named]

\* Move::apply on the caller's state (Algo::apply does this move by move).
ApplyMove(m) ==
    /\ pc = "ready"
    /\ named = 0
    /\ Len(applied) < MaxScramble
    /\ state' = Apply(m, state)
    /\ applied' = Append(applied, m)
    /\ UNCHANGED <<other_vars, named, pc, call, ret, depth, thread_vars>>

\* read_state with a scramble: the state of the named algorithm.
ReadState(i) ==
    /\ pc = "ready"
    /\ named = 0
    /\ applied = <<>>
    /\ state' = state_from_moves(NamedInputs[i])
    /\ applied' = NamedInputs[i]
    /\ named' = i
    /\ UNCHANGED <<other_vars, pc, call, ret, depth, thread_vars>>

\* A call of solve_serial or proj_solve_serial::<P>.
CallSerial(fn, d) ==
    /\ pc = "ready"
    /\ d \in Depths(fn)
    /\ call' = [op |-> "serial", fn |-> fn, heuristic |-> NopHeuristic, depth |-> d]
    /\ ret' = serial_fn(fn, state, NopHeuristic, d)
    /\ pc' = "returned"
    /\ UNCHANGED <<other_vars, seq_vars, depth, thread_vars>>

\* A call of solve or proj_solve::<P>, taken as one step.
CallParallel(fn, d) ==
    /\ pc = "ready"
    /\ d \in Depths(fn)
    /\ call' = [op |-> "parallel", fn |-> fn, heuristic |-> NopHeuristic, depth |-> d]
    /\ ret' \in parallel_search(fn, state, NopHeuristic, d)
    /\ pc' = "returned"
    /\ UNCHANGED <<other_vars, seq_vars, depth, thread_vars>>

\* main_with_args of the solve tool, once the state is read: start the loop
\* `for depth in 0..255`.
MainStart ==
    /\ pc = "ready"
    /\ named = 0
    /\ pc' = "main"
    /\ depth' = 0
    /\ call' = [op |-> "main", fn |-> SolveFn, heuristic |-> NopHeuristic, depth |-> 0]
    /\ UNCHANGED <<other_vars, seq_vars, ret, thread_vars>>

\* One iteration of the loop: solve at the current depth, stop at the first
\* Some.
MainIter ==
    /\ pc = "main"
    /\ \E r \in parallel_search(SolveFn, state, NopHeuristic, depth) :
          /\ ret' = r
          /\ call' = [call EXCEPT !.depth = depth]
          /\ IF r.some
             THEN pc' = "main_found" /\ depth' = depth
             ELSE IF depth < MaxDepth
                  THEN pc' = "main" /\ depth' = depth + 1
                  ELSE pc' = "main_gave_up" /\ depth' = depth
    /\ UNCHANGED <<other_vars, seq_vars, thread_vars>>

Next ==
    \/ \E m \in Move : ApplyMove(m)
    \/ \E i \in SerialInputs : ReadState(i)
    \/ \E fn \in Fns : \E d \in Depths(fn) : CallSerial(fn, d)
    \/ \E fn \in Fns : \E d \in Depths(fn) : CallParallel(fn, d)
    \/ MainStart
    \/ MainIter

Spec == Init /\ [][Next]_vars

(***************************************************************************)
(* The threads of a parallel call                                          *)
(***************************************************************************)

\* Most workers of one call that panic.
MaxPanics == 2

\* The heuristics a call followed thread by thread is given: the faulty one
\* for solve at depth 2 on U2 F2.
Heuristics(fn, d) ==
    IF named = 4 /\ fn = SolveFn /\ d = 2 THEN {NopHeuristic, FaultyHeuristic}
    ELSE {NopHeuristic}

\* JoinHandle::join returns at once for every handle.
joinable_always(w) == TRUE

\* JoinHandle::join in ThreadScope::drop blocks until the thread has ended.
joinable(w) == w.status \in {"terminated", "panicked"}

\* The worker's search calls lower_bound (its state is not at the goal and
\* depth - 1 is not 0), so a faulty heuristic can panic in it.
calls_lower_bound(w) ==
    /\ ~at_goal(call.fn, Apply(w.move, state))
    /\ call.depth - 1 > 0

\* The Vec `threads` after the spawn loop: every worker running, nothing
\* sent, nothing joined.
threads_of(ws) ==
    [i \in 1..Len(ws) |->
        [move |-> ws[i].move, found |-> ws[i].found, hist |-> ws[i].hist,
         status |-> "running", nsent |-> 0, joined |-> FALSE]]

\* solve or proj_solve up to drop(send): depth 0 is the serial function;
\* otherwise the channel is made and a ThreadScope is spawned per worker.
ParCall(fn, d, h) ==
    /\ pc = "ready"
    /\ named \in ThreadedInputs
    /\ d \in Depths(fn)
    /\ h \in Heuristics(fn, d)
    /\ call' = [op |-> "parallel", fn |-> fn, heuristic |-> h, depth |-> d]
    /\ IF d = 0
       THEN /\ ret' = serial_fn(fn, state, h, d)
            /\ pc' = "returned"
            /\ workers' = <<>>
       ELSE /\ workers' = threads_of(spawn_loop(fn, state, h, d, 0))
            /\ pc' = "receiving"
            /\ ret' = None
    /\ chan' = <<>>
    /\ best_solution' = None
    /\ received' = <<>>
    /\ next_join' = 1
    /\ UNCHANGED <<other_vars, seq_vars, depth>>

\* Worker i runs its closure to the end of the `if`: the search, and the
\* send of the history if it succeeded.
WorkerRun(i) ==
    /\ i \in 1..Len(workers)
    /\ workers[i].status = "running"
    /\ IF workers[i].found
       THEN /\ chan' = Append(chan, workers[i].hist)
            /\ workers' = [workers EXCEPT ![i].status = "sent", ![i].nsent = @ + 1]
       ELSE /\ chan' = chan
            /\ workers' = [workers EXCEPT ![i].status = "sent"]
    /\ UNCHANGED <<other_vars, seq_vars, pc, call, ret, depth, best_solution, received, next_join>>

\* Worker i panics inside lower_bound; unwinding drops its closure and with
\* it local_send, nothing having been sent.
WorkerPanic(i) ==
    /\ i \in 1..Len(workers)
    /\ workers[i].status = "running"
    /\ call.heuristic = FaultyHeuristic
    /\ calls_lower_bound(workers[i])
    /\ Cardinality({j \in 1..Len(workers) : workers[j].status \in {"failing", "panicked"}})
           < MaxPanics
    /\ workers' = [workers EXCEPT ![i].status = "failing"]
    /\ UNCHANGED <<other_vars, seq_vars, pc, call, ret, depth, chan, best_solution, received, next_join>>

\* The closure of worker i returns: local_send is dropped.
WorkerDropSender(i) ==
    /\ i \in 1..Len(workers)
    /\ workers[i].status = "sent"
    /\ workers' = [workers EXCEPT ![i].status = "dropped"]
    /\ UNCHANGED <<other_vars, seq_vars, pc, call, ret, depth, chan, best_solution, received, next_join>>

\* The thread of worker i ends, with the closure's result or its panic.
WorkerExit(i) ==
    /\ i \in 1..Len(workers)
    /\ workers[i].status \in {"dropped", "failing"}
    /\ workers' = [workers EXCEPT
                      ![i].status = IF @ = "dropped" THEN "terminated" ELSE "panicked"]
    /\ UNCHANGED <<other_vars, seq_vars, pc, call, ret, depth, chan, best_solution, received, next_join>>

\* One iteration of `for solution in recv`.
Recv ==
    /\ pc = "receiving"
    /\ chan # <<>>
    /\ best_solution' = receive(best_solution, Head(chan))
    /\ received' = Append(received, Head(chan))
    /\ chan' = Tail(chan)
    /\ UNCHANGED <<other_vars, seq_vars, pc, call, ret, depth, workers, next_join>>

\* The senders alive if the coordinator kept its own (index 0) while it
\* receives.
live_senders_coordinator_kept(ws) ==
    {0} \cup {i \in 1..Len(ws) : ws[i].status \in {"running", "sent"}}

\* The senders alive while the coordinator receives: drop(send) has dropped
\* its own, and worker i holds its clone local_send until its closure ends.
live_senders(ws) == {i \in 1..Len(ws) : ws[i].status \in {"running", "sent"}}

\* The receive loop ends: the channel is empty and every sender is dropped.
\* best_solution.map(Algo) is the value of the block; `threads` is dropped
\* next.
RecvEnd ==
    /\ pc = "receiving"
    /\ chan = <<>>
    /\ live_senders(workers) = {}
    /\ ret' = best_solution
    /\ pc' = IF workers = <<>> THEN "returned" ELSE "joining"
    /\ UNCHANGED <<other_vars, seq_vars, call, depth, workers, chan, best_solution, received, next_join>>

\* ThreadScope::drop of the next element of `threads`: join, then unwrap,
\* which panics if the worker did. After the last one the call returns, or
\* the panic leaves it.
Join ==
    /\ pc = "joining"
    /\ next_join <= Len(workers)
    /\ joinable(workers[next_join])
    /\ workers' = [workers EXCEPT ![next_join].joined = TRUE]
    /\ next_join' = next_join + 1
    /\ IF workers[next_join].status = "panicked"
       THEN /\ pc' = IF next_join = Len(workers) THEN "propagated" ELSE "unwinding"
            /\ ret' = None
       ELSE /\ pc' = IF next_join = Len(workers) THEN "returned" ELSE "joining"
            /\ ret' = ret
    /\ UNCHANGED <<other_vars, seq_vars, call, depth, chan, best_solution, received>>

\* The remaining elements of `threads` are dropped while the panic unwinds;
\* a second panic then aborts the process.
JoinUnwinding ==
    /\ pc = "unwinding"
    /\ next_join <= Len(workers)
    /\ joinable(workers[next_join])
    /\ workers' = [workers EXCEPT ![next_join].joined = TRUE]
    /\ next_join' = next_join + 1
    /\ pc' = IF workers[next_join].status = "panicked" THEN "aborted"
             ELSE IF next_join = Len(workers) THEN "propagated" ELSE "unwinding"
    /\ UNCHANGED <<other_vars, seq_vars, call, ret, depth, chan, best_solution, received>>

NextPar ==
    \/ \E i \in ThreadedInputs : ReadState(i)
    \/ \E fn \in Fns : \E d \in Depths(fn) : \E h \in Heuristics(fn, d) : ParCall(fn, d, h)
    \/ \E i \in 1..Len(workers) : WorkerRun(i)
    \/ \E i \in 1..Len(workers) : WorkerPanic(i)
    \/ \E i \in 1..Len(workers) : WorkerDropSender(i)
    \/ \E i \in 1..Len(workers) : WorkerExit(i)
    \/ Recv
    \/ RecvEnd
    \/ Join
    \/ JoinUnwinding

SpecPar == Init /\ [][NextPar]_vars

(***************************************************************************)
(* Properties of solve and solve_serial                                    *)
(***************************************************************************)

\* Every move of algo turns a face that is unlocked in the state it is
\* applied to, starting from s.
RECURSIVE lock_respecting(_, _)
lock_respecting(algo, s) ==
    \/ algo = <<>>
    \/ /\ ~is_locked(s, Head(algo).face)
       /\ lock_respecting(Tail(algo), Apply(Head(algo), s))

\* Some sequence of at most n moves, each turning a face unlocked at the
\* time, takes s to the solved state (all 18 moves tried at every step).
RECURSIVE exists_solution(_, _)
exists_solution(s, n) ==
    \/ is_solved(s)
    \/ /\ n > 0
       /\ \E m \in Move : ~is_locked(s, m.face) /\ exists_solution(Apply(m, s), n - 1)

\* A call of solve or solve_serial has returned (the solve tool's loop
\* returns what its last call of solve returned).
SolveReturned == pc \in {"returned", "main_found", "main_gave_up"} /\ call.fn = SolveFn

\* C1: whenever solve or solve_serial returns Some(algo), algo has at most
\* depth moves, every move turns a face unlocked in the state it is applied
\* to, and applying algo to the state gives a solved state; so the result is
\* None when no such algorithm exists, as for B D2 B' U2 L2 at depth 4.
C1_Soundness ==
    /\ (SolveReturned /\ ret.some) =>
           /\ Len(ret.algo) <= call.depth
           /\ lock_respecting(ret.algo, state)
           /\ is_solved(algo_apply(ret.algo, state))
    /\ (SolveReturned /\ ~exists_solution(state, call.depth)) => ret = None
    /\ (SolveReturned /\ applied = FiveMoveScramble /\ call.depth = 4) => ret = None

\* solve returned a two-move solution for a state with a locked face.
C1_Witness ==
    /\ pc = "returned" /\ call.op = "parallel" /\ call.fn = SolveFn
    /\ ret.some /\ Len(ret.algo) = 2
    /\ \E f \in Face : is_locked(state, f)
    /\ is_solved(algo_apply(ret.algo, state))

\* C2: with NopHeuristic, if some sequence of at most depth unlocked-face
\* moves solves the state then solve_serial returns Some: the move
\* generator's pruning and the skipping of locked faces lose no solution.
C2_Completeness ==
    (pc = "returned" /\ call.op = "serial" /\ call.fn = SolveFn
        /\ exists_solution(state, call.depth)) => ret.some

\* solve_serial found a solution whose two moves turn the two faces of one
\* axis, the case the generator prunes one order of.
C2_Witness ==
    /\ pc = "returned" /\ call.op = "serial" /\ call.fn = SolveFn
    /\ ret.some /\ Len(ret.algo) = 2
    /\ decompose_face(ret.algo[1].face).axis = decompose_face(ret.algo[2].face).axis
    /\ ~exists_solution(state, 1)

\* C3: calling solve for depth 0, 1, 2, ... in increasing order, the first
\* depth d that returns Some(algo) has Len(algo) = d, and d is the least
\* number of unlocked-face moves that solves the state.
C3_IterativeDeepening ==
    /\ pc = "main_found" =>
           /\ ret.some
           /\ Len(ret.algo) = depth
           /\ lock_respecting(ret.algo, state)
           /\ is_solved(algo_apply(ret.algo, state))
           /\ depth > 0 => ~exists_solution(state, depth - 1)
    /\ pc = "main" => (depth > 0 => ~exists_solution(state, depth - 1))
    /\ pc = "main_gave_up" => ~exists_solution(state, depth)

\* The loop stopped at depth 2 after depths 0 and 1 returned None.
C3_Witness ==
    /\ pc = "main_found" /\ depth = 2 /\ Len(applied) = 2
    /\ ret.some /\ Len(ret.algo) = 2

\* C4: the parallel solve returns Some exactly when solve_serial does for
\* the same arguments, with the same length bound, also for an input that
\* is already solved and depth >= 1; the same for proj_solve and
\* proj_solve_serial when the input already meets the projection goal.
C4_ParallelMatchesSerial ==
    (pc = "returned" /\ call.op = "parallel") =>
        /\ ret.some <=> serial_fn(call.fn, state, call.heuristic, call.depth).some
        /\ ret.some => Len(ret.algo) <= call.depth

(***************************************************************************)
(* Properties of proj_solve and proj_solve_serial                          *)
(***************************************************************************)

ProjReturned == pc = "returned" /\ call.fn.name = "proj_solve"

U2 == Mv("U", "Double")

\* C8: whenever proj_solve or proj_solve_serial::<P> returns Some(algo),
\* Len(algo) <= depth, every move turns a face unlocked at the time, and the
\* projection of the state algo leads to is that of the solved state; that
\* state need not be solved (the T-perm with LockProj at depth 1 gives U2);
\* proj_solve_serial returns the empty Algo for an input already at the goal.
C8_ProjSoundness ==
    /\ (ProjReturned /\ ret.some) =>
           /\ Len(ret.algo) <= call.depth
           /\ lock_respecting(ret.algo, state)
           /\ project(call.fn.P, algo_apply(ret.algo, state)) = project(call.fn.P, solved)
    /\ (ProjReturned /\ applied = TPerm /\ call.fn.P = "LockProj" /\ call.depth = 1) =>
           /\ ret.some
           /\ call.op = "serial" => ret = Some(<<U2>>)
    /\ (ProjReturned /\ call.op = "serial" /\ at_goal(call.fn, state)) => ret = Some(<<>>)

\* proj_solve_serial::<LockProj> answered U2 for the T-perm, and the state
\* U2 leads to is not solved.
C8_Witness ==
    /\ ProjReturned /\ call.op = "serial" /\ call.fn.P = "LockProj" /\ call.depth = 1
    /\ applied = TPerm
    /\ ret = Some(<<U2>>)
    /\ ~is_solved(algo_apply(ret.algo, state))

(***************************************************************************)
(* Properties of Move::apply                                               *)
(***************************************************************************)

\* The list in which every slot holds its own number: a move only permutes
\* slots, so what it does to this list it does to every State.
SlotNumbers == [p \in 1..48 |-> p - 1]

\* C9: for every state and each of the 18 moves m, applying m and then the
\* inverse of m (same face, Clockwise <-> Counter, Double <-> Double) gives
\* back exactly the state, arrow directions included, locked face or not.
C9_MoveInverse ==
    pc = "ready" =>
        \A m \in Move :
            /\ Apply(Move_inverse(m), Apply(m, state)) = state
            /\ move_apply(Move_inverse(m), move_apply(m, state)) = state
            /\ move_apply(Move_inverse(m), move_apply(m, SlotNumbers)) = SlotNumbers

\* A two-move scramble with a locked face: turning the locked face changes
\* the state and the inverse turn restores it.
C9_Witness ==
    /\ pc = "ready" /\ Len(applied) = 2
    /\ \E m \in Move :
           /\ is_locked(state, m.face)
           /\ Apply(m, state) # state
           /\ Apply(Move_inverse(m), Apply(m, state)) = state

\* The two 4-cycles of a face's own slots under a clockwise quarter turn.
FaceCycles == <<<<0, 2, 7, 5>>, <<1, 4, 6, 3>>>>

\* k - 1 in the cyclic order 1..4.
PrevOfFour(k) == IF k = 1 THEN 4 ELSE k - 1

\* One clockwise quarter turn of face f as the cycles describe it: the
\* content of a face slot moves to the next slot of its cycle, ring group i
\* moves position-wise to ring group i + 1, all other slots stay.
QuarterTurn(f, s) ==
    LET base == FaceIdx(f) * 8
        ring == face_ring(f)
    IN  [p \in 1..48 |->
            IF \E c \in 1..2, k \in 1..4 : base + FaceCycles[c][k] = p - 1
            THEN LET ck == CHOOSE ck \in (1..2) \X (1..4) :
                               base + FaceCycles[ck[1]][ck[2]] = p - 1
                 IN  s[base + FaceCycles[ck[1]][PrevOfFour(ck[2])] + 1]
            ELSE IF \E i \in 1..4, j \in 1..3 : ring[i][j] = p - 1
                 THEN LET ij == CHOOSE ij \in (1..4) \X (1..3) : ring[ij[1]][ij[2]] = p - 1
                      IN  s[ring[PrevOfFour(ij[1])][ij[2]] + 1]
                 ELSE s[p]]

\* The slots a clockwise quarter turn of f changes the place of.
TurnedSlots(f) ==
    {FaceIdx(f) * 8 + FaceCycles[c][k] : c \in 1..2, k \in 1..4}
        \cup {face_ring(f)[i][j] : i \in 1..4, j \in 1..3}

\* The faces shown by the top row (slots 0, 1, 2) of face f.
TopRow(s, f) == {SlotAt(s, FaceIdx(f) * 8 + j).face : j \in 0..2}

\* C10: a Move is its face's clockwise quarter turn once (Clockwise), twice
\* (Double) or three times (Counter); a quarter turn cycles the face's slots
\* 0->2->7->5->0 and 1->4->6->3->1 and ring group i to i + 1 mod 4, and
\* leaves the other 28 slots alone; U' on solved leaves U and D uniform and
\* puts L on F's top row, F on R's, R on B's and B on L's.
C10_QuarterTurns ==
    /\ pc = "ready" =>
           \A f \in Face :
               LET q1 == QuarterTurn(f, state)
                   q2 == QuarterTurn(f, q1)
                   q3 == QuarterTurn(f, q2)
               IN  /\ move_apply(Mv(f, "Clockwise"), state) = q1
                   /\ move_apply(Mv(f, "Double"), state) = q2
                   /\ move_apply(Mv(f, "Counter"), state) = q3
                   /\ Apply(Mv(f, "Clockwise"), state) = q1
                   /\ Apply(Mv(f, "Double"), state) = q2
                   /\ Apply(Mv(f, "Counter"), state) = q3
                   /\ Cardinality(TurnedSlots(f)) = 20
                   /\ \A t \in Turns : \A x \in Slots \ TurnedSlots(f) :
                          SlotAt(Apply(Mv(f, t), state), x) = SlotAt(state, x)
    /\ applied = <<Mv("U", "Counter")>> =>
           /\ \A x \in 0..7 : SlotAt(state, x).face = "U"
           /\ \A x \in 8..15 : SlotAt(state, x).face = "D"
           /\ TopRow(state, "F") = {"L"}
           /\ TopRow(state, "R") = {"F"}
           /\ TopRow(state, "B") = {"R"}
           /\ TopRow(state, "L") = {"B"}

\* U' applied to the solved state: F's top row shows L, the rest of F is F.
C10_Witness ==
    /\ pc = "ready" /\ applied = <<Mv("U", "Counter")>>
    /\ state = move_apply(Mv("U", "Counter"), solved)
    /\ TopRow(state, "F") = {"L"}
    /\ \A x \in 19..23 : SlotAt(state, x).face = "F"

(***************************************************************************)
(* Properties of the parallel calls, thread by thread                      *)
(***************************************************************************)

\* Some sequence of at most n moves, each turning a face unlocked at the
\* time, takes s to the goal of fn; shorter sequences are tried first.
RECURSIVE goal_path_of(_, _, _)
goal_path_of(fn, s, n) ==
    \/ at_goal(fn, s)
    \/ /\ n > 0
       /\ \E m \in Move : ~is_locked(s, m.face) /\ goal_path_of(fn, Apply(m, s), n - 1)

exists_goal_path(fn, s, n) == \E k \in 0..n : goal_path_of(fn, s, k)

\* A parallel call with depth >= 1 has returned a value.
ParReturned == pc = "returned" /\ call.op = "parallel" /\ call.depth >= 1

\* C5 as stated: for depth >= 1 the Algo the parallel solve returns has the
\* least length of all lock-respecting solutions of length <= depth, under
\* every interleaving.
C5_OptimalWithinBudget ==
    (ParReturned /\ ret.some) =>
        /\ Len(ret.algo) <= call.depth
        /\ ~exists_goal_path(call.fn, state, Len(ret.algo) - 1)

\* C5 amended: for depth >= 1 the Algo the parallel solve returns is the
\* history of one of its workers, has at most depth moves and is no longer
\* than the history of any worker that found one; every worker's history is
\* fixed by the call's arguments, so the length is the same under every
\* interleaving. It is the optimum when no solution shorter than depth
\* exists; otherwise it can exceed the optimum.
C5_ShortestWorkerHistory ==
    (ParReturned /\ ret.some) =>
        /\ Len(ret.algo) <= call.depth
        /\ \E i \in 1..Len(workers) : workers[i].found /\ workers[i].hist = ret.algo
        /\ \A i \in 1..Len(workers) :
               workers[i].found => Len(ret.algo) <= Len(workers[i].hist)
        /\ \A i \in 1..Len(workers) :
               workers[i].found =>
                   /\ workers[i].hist[1] = workers[i].move
                   /\ lock_respecting(workers[i].hist, state)
                   /\ at_goal(call.fn, algo_apply(workers[i].hist, state))
        /\ ~exists_goal_path(call.fn, state, call.depth - 1) => Len(ret.algo) = call.depth

\* solve at depth 6 on U2 D2 B2 R2 returned six moves although four solve it.
C5_Witness ==
    /\ ParReturned /\ call.fn = SolveFn /\ call.depth = 6
    /\ applied = HalfTurns4
    /\ ret.some /\ Len(ret.algo) = 6
    /\ is_solved(algo_apply(ret.algo, state))
    /\ goal_path_of(SolveFn, state, 4)

\* How often h occurs in the sequence seq.
Count(seq, h) == Cardinality({k \in 1..Len(seq) : seq[k] = h})

\* The histories of the workers that have sent.
SentBy(ws) == SelectSeq(ws, LAMBDA w : w.nsent = 1)

\* C6: each worker sends at most one history; the coordinator receives
\* every history sent; it returns one of least length among them whatever
\* the order of arrival (a later strictly shorter one replaces the best so
\* far); it returns None iff no worker sends.
C6_ChannelCollects ==
    /\ \A i \in 1..Len(workers) :
           /\ workers[i].nsent <= 1
           /\ workers[i].nsent = 1 => workers[i].found
           /\ Count(chan \o received, workers[i].hist)
                  = Cardinality({j \in 1..Len(workers) :
                        workers[j].nsent = 1 /\ workers[j].hist = workers[i].hist})
    /\ Len(chan) + Len(received) = Len(SentBy(workers))
    /\ (pc \in {"joining", "returned"} /\ call.op = "parallel" /\ call.depth >= 1) =>
           /\ chan = <<>>
           /\ Len(received) = Len(SentBy(workers))
           /\ ret.some <=> \E i \in 1..Len(workers) : workers[i].nsent = 1
           /\ ret.some =>
                  /\ \E k \in 1..Len(received) : received[k] = ret.algo
                  /\ \A k \in 1..Len(received) : Len(ret.algo) <= Len(received[k])

\* Two histories arrived, the longer one first, and the shorter one was
\* returned.
C6_Witness ==
    /\ ParReturned
    /\ Len(received) = 2
    /\ Len(received[1]) > Len(received[2])
    /\ ret = Some(received[2])

\* C7: on every path out of solve or proj_solve with depth >= 1 (solution
\* found, none found, a worker panicking), every worker thread the call
\* spawned has ended and been joined before the call is left, so no worker
\* still reads the borrowed state or heuristic.
C7_WorkersJoined ==
    (pc \in {"returned", "propagated"} /\ call.op = "parallel" /\ call.depth >= 1) =>
        /\ next_join = Len(workers) + 1
        /\ \A i \in 1..Len(workers) :
               /\ workers[i].status \in {"terminated", "panicked"}
               /\ workers[i].joined

\* The call was left by the panic of a worker, after another worker had
\* sent its history, with every worker joined.
C7_Witness ==
    /\ pc = "propagated" /\ call.op = "parallel" /\ call.depth >= 1
    /\ \E i \in 1..Len(workers) : workers[i].status = "panicked"
    /\ \E i \in 1..Len(workers) : workers[i].status = "terminated" /\ workers[i].nsent = 1
    /\ \A i \in 1..Len(workers) : workers[i].joined

(***************************************************************************)
(* is_locked on faces with any arrows                                      *)
(***************************************************************************)

\* The faces whose directions are drawn freely.
LockFaces == {"U", "F"}

\* The State s with the directions of face f's 8 stickers replaced by dirs
\* (State's array is public: any 48 stickers are a State).
with_directions(s, f, dirs) ==
    Eager([p \in 1..48 |->
        IF (p - 1) \div 8 = FaceIdx(f)
        THEN [face |-> s[p].face, direction |-> dirs[((p - 1) % 8) + 1]]
        ELSE s[p]])

InitLock ==
    /\ state \in {with_directions(solved, f, dirs) : f \in LockFaces, dirs \in [1..8 -> Direction]}
    /\ applied = <<>>
    /\ named = 0
    /\ pc = "ready"
    /\ call = NoCall
    /\ ret = None
    /\ depth = 0
    /\ workers = <<>>
    /\ chan = <<>>
    /\ best_solution = None
    /\ received = <<>>
    /\ next_join = 1
    /\ iter = [state |-> MoveGen_new, idx |-> 0]
    /\ item = [some |-> FALSE]
    /\ taken = <<>>
    /\ yields = <<>>
    /\ heur = NoHeur
    /\ ms = NoMs

\* A call of State::is_locked.
IsLocked(f) ==
    /\ pc = "ready"
    /\ call' = [op |-> "is_locked", face |-> f]
    /\ ret' = is_locked(state, f)
    /\ pc' = "returned"
    /\ UNCHANGED <<seq_vars, depth, thread_vars, other_vars>>

NextLock == \E f \in Face : IsLocked(f)

SpecLock == InitLock /\ [][NextLock]_vars

\* The directions shown by the 8 stickers of face f.
DirectionsOn(s, f) == {face(s, f)[j].direction : j \in 1..8}

\* C11: is_locked(f) is true iff f's 8 stickers hold at least one Clockwise
\* and at least one Counter arrow, in whatever order and with any number of
\* Neutral stickers between them; one kind of arrow or none is unlocked.
C11_LockedIffBothArrows ==
    (pc = "returned" /\ call.op = "is_locked") =>
        (ret <=> {"Clockwise", "Counter"} \subseteq DirectionsOn(state, call.face))

\* A locked face that starts with a Neutral sticker and has a Neutral
\* sticker between a Counter arrow and the Clockwise arrow after it.
C11_Witness ==
    /\ pc = "returned" /\ call.op = "is_locked" /\ ret = TRUE
    /\ LET stickers == face(state, call.face)
       IN  /\ stickers[1].direction = "Neutral"
           /\ stickers[2].direction = "Counter"
           /\ stickers[3].direction = "Neutral"
           /\ stickers[4].direction = "Neutral"
           /\ stickers[5].direction = "Clockwise"
           /\ \A j \in 6..8 : stickers[j].direction = "Neutral"

(***************************************************************************)
(* Walking the move generator                                              *)
(***************************************************************************)

\* Longest move sequence taken from the generator.
MaxPath == 3

\* MoveGenIter::next on iter: the item returned, idx advanced past it.
IterNext ==
    /\ pc = "ready"
    /\ LET nx == MoveGenIter_next(iter.state, iter.idx)
       IN  /\ iter' = [iter EXCEPT !.idx = nx.idx]
           /\ item' = IF nx.some THEN [some |-> TRUE, gen |-> nx.gen, move |-> nx.move]
                      ELSE [some |-> FALSE]
           /\ yields' = IF nx.some THEN Append(yields, nx.move) ELSE yields
    /\ UNCHANGED <<seq_vars, pc, call, ret, depth, thread_vars, taken, heur, ms>>

\* The step of a search into the move yielded: `for (new_gen, m) in gen`,
\* then new_gen.into_iter() one level down.
Descend ==
    /\ pc = "ready"
    /\ item.some
    /\ Len(taken) < MaxPath
    /\ taken' = Append(taken, item.move)
    /\ iter' = [state |-> item.gen, idx |-> 0]
    /\ item' = [some |-> FALSE]
    /\ yields' = <<>>
    /\ UNCHANGED <<seq_vars, pc, call, ret, depth, thread_vars, heur, ms>>

NextGen == IterNext \/ Descend

SpecGen == Init /\ [][NextGen]_vars

\* The canonical order U, U2, U', D, ..., L, L2, L'.
CanonicalOrder ==
    [k \in 1..18 |->
        [face |-> <<"U", "D", "F", "B", "R", "L">>[((k - 1) \div 3) + 1],
         turns |-> <<"Clockwise", "Double", "Counter">>[((k - 1) % 3) + 1]]]

AxisOf(f) == CASE f \in {"U", "D"} -> "UD" [] f \in {"F", "B"} -> "FB" [] f \in {"R", "L"} -> "RL"

PrimaryFaces == {"U", "F", "R"}

\* The rule of C12: whether generator g yields move m, and with which
\* successor.
ShouldYield(g, m) ==
    \/ AxisOf(m.face) # g.axis
    \/ g.axis_state = "Enabled"
    \/ g.axis_state = "HalfDisabled" /\ m.face \notin PrimaryFaces

SuccessorOf(m) ==
    [axis |-> AxisOf(m.face),
     axis_state |-> IF m.face \in PrimaryFaces THEN "HalfDisabled" ELSE "Disabled"]

\* The iterator has returned None.
Exhausted == iter.idx = 18 /\ ~item.some

\* C12: iterating a generator visits the 18 moves in the canonical order
\* and yields (successor, m) exactly when m's axis is not last_axis, or
\* axis_state is Enabled, or axis_state is HalfDisabled and m's face is not
\* primary; the successor is (axis of m, HalfDisabled if primary else
\* Disabled). So MoveGen::new() yields 18 moves, a HalfDisabled generator
\* 15 and a Disabled generator 12.
C12_GeneratorRule ==
    /\ yields = SelectSeq(SubSeq(CanonicalOrder, 1, iter.idx),
                          LAMBDA m : ShouldYield(iter.state, m))
    /\ item.some =>
           /\ iter.idx >= 1
           /\ item.move = CanonicalOrder[iter.idx]
           /\ item.gen = SuccessorOf(item.move)
    /\ Exhausted =>
           Len(yields) = CASE iter.state.axis_state = "Enabled" -> 18
                           [] iter.state.axis_state = "HalfDisabled" -> 15
                           [] iter.state.axis_state = "Disabled" -> 12
    /\ (taken = <<>> /\ Exhausted) => yields = CanonicalOrder

\* The generator after a primary face, iterated to the end: 15 moves, the
\* three of the secondary face of the same axis among them.
C12_Witness ==
    /\ Exhausted
    /\ Len(taken) = 1 /\ taken[1].face = "F"
    /\ iter.state = [axis |-> "FB", axis_state |-> "HalfDisabled"]
    /\ Len(yields) = 15
    /\ Cardinality({k \in 1..15 : yields[k].face = "B"}) = 3

\* The moves taken, and the move just yielded after them.
Sequence == IF item.some THEN Append(taken, item.move) ELSE taken

\* C13: in every move sequence taken from MoveGen::new() through the
\* successor generators no two consecutive moves turn the same face, a
\* move of a secondary face (D, B, L) is never directly followed by a move
\* on the same axis, and no three consecutive moves lie on one axis.
C13_NoRedundantSequences ==
    /\ \A k \in 1..(Len(Sequence) - 1) :
           /\ Sequence[k].face # Sequence[k + 1].face
           /\ Sequence[k].face \in {"D", "B", "L"} =>
                  AxisOf(Sequence[k + 1].face) # AxisOf(Sequence[k].face)
    /\ \A k \in 1..(Len(Sequence) - 2) :
           ~(/\ AxisOf(Sequence[k].face) = AxisOf(Sequence[k + 1].face)
             /\ AxisOf(Sequence[k + 1].face) = AxisOf(Sequence[k + 2].face))

\* After U, D was taken; the generator after U D, iterated to the end,
\* yielded the 12 moves of the other two axes.
C13_Witness ==
    /\ Len(taken) = 2 /\ taken[1].face = "U" /\ taken[2].face = "D"
    /\ Exhausted
    /\ Len(yields) = 12
    /\ \A k \in 1..12 : AxisOf(yields[k].face) # "UD"

(***************************************************************************)
(* Pattern databases: generate and lower_bound                             *)
(***************************************************************************)

\* The depths generate is called with.
GenDepths == (0..MaxGenDepth) \cup {U8_MAX}

\* ProjHeuristic::<P>::generate(D).
Generate(P, D, build) ==
    /\ pc = "ready"
    /\ named = 0
    /\ applied = <<>>
    /\ heur = NoHeur
    /\ heur' = [P |-> P, depth |-> D, result |-> generate(P, D, build)]
    /\ UNCHANGED <<seq_vars, pc, call, ret, depth, thread_vars, gen_vars, ms>>

\* The search of generate ran to the depth asked for.
TableComplete == heur # NoHeur /\ ~heur.result.panicked /\ heur.depth <= MaxGenDepth

\* lower_bound(&state) of the heuristic generated.
LowerBound ==
    /\ pc = "ready"
    /\ TableComplete
    /\ call' = [op |-> "lower_bound"]
    /\ ret' = lower_bound(heur.result.h, state)
    /\ pc' = "returned"
    /\ UNCHANGED <<seq_vars, depth, thread_vars, other_vars>>

NextHeur ==
    \/ \E P \in ProjTypes : \E D \in GenDepths : \E build \in Builds : Generate(P, D, build)
    \/ \E m \in Move : ApplyMove(m)
    \/ LowerBound

SpecHeur == Init /\ [][NextHeur]_vars

LowerBoundReturned == pc = "returned" /\ call.op = "lower_bound"

\* C14 as stated: for any state obtained from solved by an algorithm of L
\* moves, whether or not the faces it turns are unlocked, and a heuristic
\* generated at depth D >= L, lower_bound is at most L.
C14_AnyAlgorithm ==
    (LowerBoundReturned /\ heur.depth >= Len(applied)) => ret <= Len(applied)

\* C14: for any state obtained from solved by an algorithm of L moves each
\* of which turns an unlocked face, and a heuristic generated at depth
\* D >= L, lower_bound is at most L.
C14_Admissible ==
    (/\ LowerBoundReturned
     /\ heur.depth >= Len(applied)
     /\ lock_respecting(applied, solved)) => ret <= Len(applied)

\* Two unlocked moves whose state the depth-2 table places at distance 2.
C14_Witness ==
    /\ LowerBoundReturned
    /\ heur.depth = 2 /\ heur.P = "ArrowAxisProj"
    /\ Len(applied) = 2
    /\ lock_respecting(applied, solved)
    /\ ret = 2

\* C15: for every depth D of 0..255 generate(D) completes, its table maps
\* the projection of solved to 0 and holds only values of 0..D, its default
\* is D + 1, and lower_bound returns the stored value of a projection
\* present and default otherwise.
C15_GenerateTotal ==
    /\ heur # NoHeur =>
           /\ ~heur.result.panicked
           /\ project(heur.P, solved) \in DOMAIN heur.result.h.table
           /\ heur.result.h.table[project(heur.P, solved)] = 0
           /\ \A p \in DOMAIN heur.result.h.table : heur.result.h.table[p] \in 0..heur.depth
           /\ heur.result.h.default = heur.depth + 1
    /\ LowerBoundReturned =>
           ret = IF project(heur.P, state) \in DOMAIN heur.result.h.table
                 THEN heur.result.h.table[project(heur.P, state)]
                 ELSE heur.result.h.default

\* The number of entries of the table generated.
TableLen == Cardinality(DOMAIN heur.result.h.table)

\* C16: the table of CornerProj has 19 entries at depth 1 and 190 at
\* depth 2.
C16_TableSizes ==
    (heur # NoHeur /\ ~heur.result.panicked /\ heur.P = "CornerProj") =>
        /\ heur.depth = 1 => TableLen = 19
        /\ heur.depth = 2 => TableLen = 190

C16_Witness ==
    /\ TableComplete
    /\ heur.P = "CornerProj" /\ heur.depth = 2
    /\ TableLen = 190

(***************************************************************************)
(* multi_step.rs: the multi-stage solver                                   *)
(***************************************************************************)

\* MultiStep{arrow, co_fb, co_rl, co_ud, corner, lock}.
MultiStep(arrow, co_fb, co_rl, co_ud, corner, lock) ==
    [arrow |-> arrow, co_fb |-> co_fb, co_rl |-> co_rl, co_ud |-> co_ud, corner |-> corner,
     lock |-> lock]

\* Depth of the tables of the solvers called (generate_default is the same
\* construction at depths 7 and 8).
MsGenDepth == 1

\* A table generated.
generated(P) == generate(P, MsGenDepth, "release").h

\* A table with no entries: lower_bound is default everywhere.
empty_table(P, default) == ProjHeuristic(P, <<>>, default)

\* generate_default at depth MsGenDepth.
generate_default ==
    MultiStep(generated("ArrowAxisProj"), generated("CoFbProj"), generated("CoRlProj"),
              generated("CoUdProj"), generated("CornerProj"), generated("LockProj"))

\* The solvers called: the generated one, and ones with one public field
\* replaced by a table without entries.
Solvers ==
    [generated |-> generate_default,
     arrow_13 |-> [generate_default EXCEPT !.arrow = empty_table("ArrowAxisProj", 13)],
     arrow_255 |-> [generate_default EXCEPT !.arrow = empty_table("ArrowAxisProj", U8_MAX)],
     co_fb_255 |-> [generate_default EXCEPT !.co_fb = empty_table("CoFbProj", U8_MAX)],
     corner_255 |-> [generate_default EXCEPT !.corner = empty_table("CornerProj", U8_MAX)]]

\* Longest scramble MultiStep::solve is called on.
MsScramble == 1

\* The calls made: <<named input or 0 for a scramble, solver>>.
MultiCases ==
    {<<0, "generated">>, <<4, "arrow_13">>, <<5, "generated">>, <<6, "arrow_255">>,
     <<7, "co_fb_255">>, <<8, "co_fb_255">>, <<9, "corner_255">>}

MultiInputs == {4, 5, 6, 7, 8, 9}

\* combo1 and combo2 of solve.
combo1(self) == MaxHeuristic(<<self.arrow, self.co_fb, self.co_rl, self.co_ud>>)

combo2(self) == MaxHeuristic(<<self.arrow, self.corner>>)

\* The calls of step in solve, in the order of the text: projection,
\* heuristic and upper bound of each.
Steps == <<"primary", "lock", "arrow", "stage2", "stage3">>

step_proj(stage) ==
    CASE stage = "primary" -> "ArrowAxisProj"
      [] stage = "lock" -> "LockProj"
      [] stage = "arrow" -> "ArrowAxisProj"
      [] stage = "stage2" -> "Combo1Proj"
      [] stage = "stage3" -> "Combo2Proj"

step_heuristic(self, stage) ==
    CASE stage = "primary" -> self.arrow
      [] stage = "lock" -> self.lock
      [] stage = "arrow" -> self.arrow
      [] stage = "stage2" -> combo1(self)
      [] stage = "stage3" -> combo1(self)

step_upper_bound(stage) ==
    CASE stage = "primary" -> 14
      [] stage = "lock" -> 13
      [] stage = "arrow" -> 255
      [] stage = "stage2" -> 255
      [] stage = "stage3" -> 255

\* A range that includes its upper bound.
range_inclusive(upper_bound) == 0..upper_bound

\* `0..upper_bound`.
range(upper_bound) == 0..(upper_bound - 1)

\* What follows a step that returned Some.
step_then(stage) ==
    CASE stage = "primary" -> "stage2"
      [] stage = "lock" -> "arrow"
      [] stage = "arrow" -> "stage2"
      [] stage = "stage2" -> "stage3"
      [] stage = "stage3" -> "final"

\* A solve that reports every failure as InvalidState.
step_error_one_kind(stage) == "InvalidState"

\* The error of ok_or(..)? after a step that returned None.
step_error(stage) ==
    CASE stage = "lock" -> "InvalidEdges"
      [] stage = "arrow" -> "InvalidEdges"
      [] stage = "stage2" -> "InvalidCorners"
      [] stage = "stage3" -> "InvalidState"

\* Only the last part.
combined_last_part(parts) == parts[Len(parts)]

\* flat_map over the parts.
RECURSIVE combined(_)
combined(parts) == IF parts = <<>> THEN <<>> ELSE Head(parts) \o combined(Tail(parts))

Ok(algo, parts) == [ok |-> TRUE, algo |-> algo, parts |-> parts]

Err(e) == [ok |-> FALSE, err |-> e]

\* solve is entered: parts empty, no step made yet.
MsCall(name) ==
    /\ pc = "ready"
    /\ ms = NoMs
    /\ <<named, name>> \in MultiCases
    /\ named = 0 => Len(applied) <= MsScramble
    /\ pc' = "multi"
    /\ call' = [op |-> "MultiStep::solve", solver |-> name]
    /\ ms' = [pc |-> "primary", self |-> Solvers[name], h |-> Solvers[name].arrow,
              parts |-> <<>>, new_state |-> state, i |-> 0, log |-> <<>>]
    /\ UNCHANGED <<seq_vars, ret, depth, thread_vars, gen_vars, heur>>

\* The record of a step that ended: how many depths it tried and whether
\* it found a solution.
Ended(stage, tried, found) == [stage |-> stage, tried |-> tried, found |-> found]

\* One turn of the loop of step: proj_solve at depth i.
StepIter ==
    /\ pc = "multi"
    /\ ms.pc \in {Steps[k] : k \in 1..Len(Steps)}
    /\ ms.i \in range(step_upper_bound(ms.pc))
    /\ \E r \in parallel_search(ProjSolveFn(step_proj(ms.pc)), ms.new_state, ms.h, ms.i) :
           ms' = IF r.some
                 THEN [ms EXCEPT !.pc = step_then(ms.pc),
                                 !.h = IF step_then(ms.pc) = "final" THEN combo2(ms.self)
                                       ELSE step_heuristic(ms.self, step_then(ms.pc)),
                                 !.parts = Append(@, r.algo),
                                 !.new_state = algo_apply(r.algo, @),
                                 !.i = 0,
                                 !.log = Append(@, Ended(ms.pc, ms.i + 1, TRUE))]
                 ELSE [ms EXCEPT !.i = @ + 1]
    /\ UNCHANGED <<seq_vars, pc, call, ret, depth, thread_vars, gen_vars, heur>>

\* The primary step returned None: the None arm of the match.
FallBack ==
    /\ pc = "multi"
    /\ ms.pc = "primary"
    /\ ms.i \notin range(step_upper_bound(ms.pc))
    /\ ms' = [ms EXCEPT !.pc = "lock", !.h = step_heuristic(ms.self, "lock"), !.i = 0,
                        !.log = Append(@, Ended("primary", ms.i, FALSE))]
    /\ UNCHANGED <<seq_vars, pc, call, ret, depth, thread_vars, gen_vars, heur>>

\* Another step returned None: ok_or(error)? returns from solve.
StepErr ==
    /\ pc = "multi"
    /\ ms.pc \in {"lock", "arrow", "stage2", "stage3"}
    /\ ms.i \notin range(step_upper_bound(ms.pc))
    /\ ms' = [ms EXCEPT !.pc = "done", !.log = Append(@, Ended(ms.pc, ms.i, FALSE))]
    /\ ret' = Err(step_error(ms.pc))
    /\ pc' = "returned"
    /\ UNCHANGED <<seq_vars, call, depth, thread_vars, gen_vars, heur>>

\* One turn of `for i in 0..255`: solve at depth i.
FinalIter ==
    /\ pc = "multi"
    /\ ms.pc = "final"
    /\ ms.i \in range(255)
    /\ \E r \in parallel_search(SolveFn, ms.new_state, ms.h, ms.i) :
           IF r.some
           THEN /\ ms' = [ms EXCEPT !.pc = "done", !.parts = Append(@, r.algo),
                                    !.log = Append(@, Ended("final", ms.i + 1, TRUE))]
                /\ ret' = Ok(combined(Append(ms.parts, r.algo)), Append(ms.parts, r.algo))
                /\ pc' = "returned"
           ELSE /\ ms' = [ms EXCEPT !.i = @ + 1]
                /\ UNCHANGED <<ret, pc>>
    /\ UNCHANGED <<seq_vars, call, depth, thread_vars, gen_vars, heur>>

\* The loop ended: Err(InvalidState).
FinalErr ==
    /\ pc = "multi"
    /\ ms.pc = "final"
    /\ ms.i \notin range(255)
    /\ ms' = [ms EXCEPT !.pc = "done", !.log = Append(@, Ended("final", ms.i, FALSE))]
    /\ ret' = Err("InvalidState")
    /\ pc' = "returned"
    /\ UNCHANGED <<seq_vars, call, depth, thread_vars, gen_vars, heur>>

NextMulti ==
    \/ \E m \in Move : ApplyMove(m)
    \/ \E i \in MultiInputs : ReadState(i)
    \/ \E name \in DOMAIN Solvers : MsCall(name)
    \/ StepIter
    \/ FallBack
    \/ StepErr
    \/ FinalIter
    \/ FinalErr

SpecMulti == Init /\ [][NextMulti]_vars

MsReturned == pc = "returned" /\ call.op = "MultiStep::solve"

\* The steps and the final solve that have ended, in order.
Log == ms.log

LastEnded == Log[Len(Log)]

\* The primary ArrowAxisProj search of stage 1 succeeded.
PrimarySucceeded == Len(Log) >= 1 /\ Log[1].stage = "primary" /\ Log[1].found

RECURSIVE Concat(_)
Concat(parts) ==
    IF parts = <<>> THEN <<>>
    ELSE Concat(SubSeq(parts, 1, Len(parts) - 1)) \o parts[Len(parts)]

\* C17: when MultiStep::solve returns Ok((algo, parts)), algo is the
\* concatenation of parts in order, algo applied to the input gives a solved
\* state, every move of algo turns a face unlocked at the time, and parts
\* has 4 entries when the primary search of stage 1 succeeded and 5 when
\* the LockProj-then-ArrowAxisProj fallback was used.
C17_OkResult ==
    (MsReturned /\ ret.ok) =>
        /\ ret.algo = Concat(ret.parts)
        /\ is_solved(algo_apply(ret.algo, state))
        /\ lock_respecting(ret.algo, state)
        /\ Len(ret.parts) = IF PrimarySucceeded THEN 4 ELSE 5

\* The fallback was used and solve returned five parts, the first with
\* the two moves that solve U2 F2.
C17_Witness ==
    /\ MsReturned /\ ret.ok
    /\ ~PrimarySucceeded
    /\ Len(ret.parts) = 5
    /\ Len(ret.parts[1]) = 2
    /\ Len(ret.algo) = 2

StagesEnded == [k \in 1..Len(Log) |-> Log[k].stage]

IsPrefix(a, b) == Len(a) <= Len(b) /\ a = SubSeq(b, 1, Len(a))

\* C18: solve runs its stages in order and stops at the first failing one:
\* Err(InvalidEdges) exactly when stage 1 fails (the primary search fails
\* and then the LockProj search or the ArrowAxisProj search after it fails),
\* Err(InvalidCorners) exactly when stage 2 fails, Err(InvalidState)
\* exactly when stage 3 or the final solve over depths 0..254 fails; the
\* only failure solve goes on after is that of the primary search.
C18_ErrorPerStage ==
    /\ (pc \in {"multi", "returned"} /\ call.op = "MultiStep::solve") =>
           /\ IsPrefix(StagesEnded,
                       IF PrimarySucceeded
                       THEN <<"primary", "stage2", "stage3", "final">>
                       ELSE <<"primary", "lock", "arrow", "stage2", "stage3", "final">>)
           /\ \A k \in 1..Len(Log) :
                  ~Log[k].found => (k = 1 \/ (k = Len(Log) /\ pc = "returned"))
           /\ (pc = "multi" /\ Len(Log) >= 1) => (LastEnded.found \/ Len(Log) = 1)
    /\ MsReturned =>
           /\ ret.ok <=> (LastEnded.stage = "final" /\ LastEnded.found)
           /\ ret = Err("InvalidEdges") <=>
                  (~PrimarySucceeded /\ LastEnded.stage \in {"lock", "arrow"} /\ ~LastEnded.found)
           /\ ret = Err("InvalidCorners") <=> (LastEnded.stage = "stage2" /\ ~LastEnded.found)
           /\ ret = Err("InvalidState") <=>
                  (LastEnded.stage \in {"stage3", "final"} /\ ~LastEnded.found)
           /\ (LastEnded.stage = "final" /\ ~LastEnded.found) => LastEnded.tried = 255

\* Stage 1 succeeded at once, stage 2 was pruned at every depth and solve
\* returned InvalidCorners.
C18_Witness ==
    /\ MsReturned
    /\ ret = Err("InvalidCorners")
    /\ Log = <<Ended("primary", 1, TRUE), Ended("stage2", 255, FALSE)>>

\* C19: stage 3 (goal PairProj<ArrowAxisProj, CornerProj>) prunes with the
\* heuristic max(ArrowAxisProj table, CornerProj table), the one the final
\* solve uses, and not with the heuristic of stage 2.
C19_Stage3Heuristic ==
    (pc = "multi" /\ call.op = "MultiStep::solve" /\ ms.pc = "stage3") =>
        /\ ms.h = MaxHeuristic(<<ms.self.arrow, ms.self.corner>>)
        /\ ms.h # MaxHeuristic(<<ms.self.arrow, ms.self.co_fb, ms.self.co_rl, ms.self.co_ud>>)

\* The part a step that found a solution pushed.
PartOf(k) == ms.parts[Cardinality({j \in 1..k : Log[j].found})]

\* C20 as stated: the primary search gives up only after depth 14, the
\* fallback LockProj search after depth 13 and the fallback ArrowAxisProj
\* search after depth 255; when solve falls back, no primary solution is
\* to be had at depth 14.
C20_InclusiveBounds ==
    (pc \in {"multi", "returned"} /\ call.op = "MultiStep::solve") =>
        /\ \A k \in 1..Len(Log) :
               ~Log[k].found =>
                   /\ Log[k].stage = "primary" => Log[k].tried = 14 + 1
                   /\ Log[k].stage = "lock" => Log[k].tried = 13 + 1
                   /\ Log[k].stage = "arrow" => Log[k].tried = 255 + 1
        /\ (Len(Log) >= 1 /\ ~PrimarySucceeded) =>
               parallel_search(ProjSolveFn("ArrowAxisProj"), state, ms.self.arrow, 14) = {None}

\* The longest solution each search of stage 1 accepts.
MaxAccepted(stage) ==
    CASE stage = "primary" -> 13
      [] stage = "lock" -> 12
      [] stage = "arrow" -> 254

\* C20: the primary search accepts solutions of length 0 up to and
\* including 13 before solve falls back, the fallback LockProj search
\* solutions of length up to 12 and the fallback ArrowAxisProj search
\* solutions of length up to 254: each search tries the depths from 0 on,
\* accepts the first solution found, and gives up after the depth named.
C20_ExclusiveBounds ==
    (pc \in {"multi", "returned"} /\ call.op = "MultiStep::solve") =>
        /\ \A k \in 1..Len(Log) :
               Log[k].stage \in {"primary", "lock", "arrow"} =>
                   IF Log[k].found
                   THEN /\ Len(PartOf(k)) <= Log[k].tried - 1
                        /\ Log[k].tried - 1 <= MaxAccepted(Log[k].stage)
                   ELSE Log[k].tried - 1 = MaxAccepted(Log[k].stage)
        /\ (pc = "multi" /\ ms.pc \in {"primary", "lock", "arrow"}) =>
               ms.i <= MaxAccepted(ms.pc) + 1

\* The primary search has failed at the depths 0..13 and solve has fallen
\* back, although the search succeeds at depth 14.
C20_Witness ==
    /\ pc = "multi" /\ call.op = "MultiStep::solve"
    /\ ms.pc = "lock" /\ ms.i = 0
    /\ Log = <<Ended("primary", 14, FALSE)>>
    /\ parallel_search(ProjSolveFn("ArrowAxisProj"), state, ms.self.arrow, 14) # {None}

(***************************************************************************)
(* scramble.rs: random scrambles                                           *)
(***************************************************************************)

MaxScrambleLen == 2

\* The residues of random::<usize>() that matter: a generator yields at most
\* 18 options, and every index of a shorter list is a residue of one of them.
RandomValues == 0..(Len(ALL_MOVES) - 1)

\* gen.into_iter().collect(), keeping every move whatever the generator says.
collect_all_moves(gen, idx) ==
    [i \in 1..Len(ALL_MOVES) |->
        [gen |-> SuccessorOf(ALL_MOVES[i]), move |-> ALL_MOVES[i]]]

\* gen.into_iter().collect(): the (successor, move) pairs in the order yielded.
RECURSIVE collect(_, _)
collect(gen, idx) ==
    LET nx == MoveGenIter_next(gen, idx)
    IN  IF ~nx.some THEN <<>>
        ELSE <<[gen |-> nx.gen, move |-> nx.move]>> \o collect(gen, nx.idx)

\* Vec::remove(idx), idx counted from 0.
remove(v, idx) == SubSeq(v, 1, idx) \o SubSeq(v, idx + 2, Len(v))

\* Vec::pop(), the popped value dropped.
pop(v) == SubSeq(v, 1, Len(v) - 1)

\* The k-th call of random::<usize>(), read from the outcomes rnd.
random(rnd, k) == rnd[(k % Len(rnd)) + 1]

\* scramble_search: s and history are the &mut arguments, returned with the
\* status; k counts the calls of random made so far.
RECURSIVE scramble_search(_, _, _, _, _, _)
RECURSIVE scramble_search_loop(_, _, _, _, _, _)
scramble_search(s, moves, history, gen, rnd, k) ==
    IF moves = 0
    THEN [status |-> TRUE, state |-> s, history |-> history, k |-> k]
    ELSE scramble_search_loop(s, moves, history, collect(gen, 0), rnd, k)

scramble_search_loop(s, moves, history, next_options, rnd, k) ==
    IF Len(next_options) = 0
    THEN [status |-> FALSE, state |-> s, history |-> history, k |-> k]
    ELSE LET idx == random(rnd, k) % Len(next_options)
             opt == next_options[idx + 1]
             r == scramble_search(Apply(opt.move, s), moves - 1,
                                  Append(history, opt.move), opt.gen,
                                  rnd, k + 1)
         IN  IF r.status THEN r
             ELSE scramble_search_loop(
                      Apply(Move_inverse(opt.move), r.state), moves,
                      pop(r.history), remove(next_options, idx), rnd, r.k)

\* scramble(moves): assert!(status) panics when the search fails.
scramble(moves, rnd) ==
    LET r == scramble_search(solved, moves, <<>>, MoveGen_new, rnd, 0)
    IN  IF r.status
        THEN [panicked |-> FALSE, algo |-> r.history, state |-> r.state,
              draws |-> r.k]
        ELSE [panicked |-> TRUE]

Scramble(moves, rnd) ==
    /\ pc = "ready"
    /\ named = 0
    /\ applied = <<>>
    /\ call' = [op |-> "scramble", moves |-> moves, random |-> rnd]
    /\ ret' = scramble(moves, rnd)
    /\ pc' = "returned"
    /\ UNCHANGED <<seq_vars, depth, thread_vars, other_vars>>

NextScramble ==
    \E moves \in 0..MaxScrambleLen :
        \E rnd \in [1..moves -> RandomValues] : Scramble(moves, rnd)

SpecScramble == Init /\ [][NextScramble]_vars

ScrambleReturned == pc = "returned" /\ call.op = "scramble"

\* C21: every move of the Algo returned by scramble(n) turns a face that is
\* not locked in the state reached by the moves before it, whatever the
\* random choices were.
C21_ScrambleLegal ==
    ScrambleReturned =>
        /\ ~ret.panicked
        /\ lock_respecting(ret.algo, solved)

(***************************************************************************)
(* C29: scramble(n) returns n moves that follow the generator              *)
(***************************************************************************)

\* Consecutive moves obey the generator's successor rule from MoveGen::new().
RECURSIVE FollowsGenerator(_, _)
FollowsGenerator(g, algo) ==
    \/ algo = <<>>
    \/ /\ ShouldYield(g, Head(algo))
       /\ FollowsGenerator(SuccessorOf(Head(algo)), Tail(algo))

\* C29: for every n and every outcome of the random choices scramble(n)
\* returns, with status true, exactly n moves that obey the generator's
\* successor rule from MoveGen::new(); the working state is the one the
\* returned history leads to, and no move is ever taken back: the search
\* draws exactly n random numbers.
C29_ScrambleLength ==
    ScrambleReturned =>
        /\ ~ret.panicked
        /\ Len(ret.algo) = call.moves
        /\ FollowsGenerator(MoveGen_new, ret.algo)
        /\ ret.state = algo_apply(ret.algo, solved)
        /\ ret.draws = call.moves

C29_Witness ==
    /\ ScrambleReturned
    /\ call.moves = MaxScrambleLen
    /\ ~ret.panicked
    /\ Len(ret.algo) = MaxScrambleLen
    /\ ret.algo[1] = Mv("U", "Clockwise")
    /\ ret.algo[2] = Mv("D", "Double")

(***************************************************************************)
(* moves.rs: writing and reading algorithms.  A string is a sequence of    *)
(* characters.                                                             *)
(***************************************************************************)

MaxAlgoLen == 2
MaxTextLen == 4

\* Display for Face.
Face_fmt(f) ==
    CASE f = "U" -> <<"U">> [] f = "D" -> <<"D">> [] f = "F" -> <<"F">>
      [] f = "B" -> <<"B">> [] f = "R" -> <<"R">> [] f = "L" -> <<"L">>

\* Display for Move, the Double turn written like the Counter turn.
Move_fmt_prime_only(m) ==
    Face_fmt(m.face) \o (CASE m.turns = "Clockwise" -> <<>>
                           [] m.turns = "Double" -> <<"'">>
                           [] m.turns = "Counter" -> <<"'">>)

\* Display for Move.
Move_fmt(m) ==
    Face_fmt(m.face) \o (CASE m.turns = "Clockwise" -> <<>>
                           [] m.turns = "Double" -> <<"2">>
                           [] m.turns = "Counter" -> <<"'">>)

\* Display for Algo: a space before every move but the first.
RECURSIVE Algo_fmt_from(_, _)
Algo_fmt_from(algo, i) ==
    IF i > Len(algo) THEN <<>>
    ELSE (IF i # 1 THEN <<" ">> ELSE <<>>) \o Move_fmt(algo[i])
         \o Algo_fmt_from(algo, i + 1)

Algo_fmt(algo) == Algo_fmt_from(algo, 1)

\* char::is_whitespace, on the characters used here.
WhiteSpace == {" ", "\t", "\n"}

\* str::split_whitespace: the non-empty pieces between runs of whitespace;
\* token is the piece being read at position i.
RECURSIVE split_whitespace(_, _, _)
split_whitespace(s, i, token) ==
    IF i > Len(s) THEN (IF token = <<>> THEN <<>> ELSE <<token>>)
    ELSE IF s[i] \in WhiteSpace
         THEN (IF token = <<>> THEN <<>> ELSE <<token>>)
              \o split_whitespace(s, i + 1, <<>>)
         ELSE split_whitespace(s, i + 1, Append(token, s[i]))

ParseMoveError_new(move_str) ==
    [message |-> <<"invalid move: ">> \o move_str, move_str |-> move_str]

\* FromStr for Move: the first of ALL_MOVES whose text is s.
RECURSIVE Move_find(_, _)
Move_find(s, i) ==
    IF i > Len(ALL_MOVES) THEN [ok |-> FALSE, error |-> ParseMoveError_new(s)]
    ELSE IF Move_fmt(ALL_MOVES[i]) = s THEN [ok |-> TRUE, move |-> ALL_MOVES[i]]
         ELSE Move_find(s, i + 1)

Move_from_str(s) == Move_find(s, 1)

\* FromStr for Algo: `?` returns the first token's error.
RECURSIVE Algo_from_tokens(_, _, _)
Algo_from_tokens(tokens, i, res) ==
    IF i > Len(tokens) THEN [ok |-> TRUE, algo |-> res]
    ELSE LET p == Move_from_str(tokens[i])
         IN  IF ~p.ok THEN [ok |-> FALSE, error |-> p.error]
             ELSE Algo_from_tokens(tokens, i + 1, Append(res, p.move))

Algo_from_str(s) == Algo_from_tokens(split_whitespace(s, 1, <<>>), 1, <<>>)

\* The algorithms written and the characters read.
RECURSIVE SeqsUpTo(_, _)
SeqsUpTo(S, n) ==
    IF n = 0 THEN {<<>>}
    ELSE LET shorter == SeqsUpTo(S, n - 1)
         IN  shorter \cup {Append(q, x) : q \in shorter, x \in S}

MoveSet == {ALL_MOVES[i] : i \in 1..Len(ALL_MOVES)}

Alphabet == {"U", "R", "2", "3", "'", " ", "\t"}

\* format!("{}", algo)
Format(algo) ==
    /\ pc = "ready"
    /\ named = 0
    /\ applied = <<>>
    /\ call' = [op |-> "format", algo |-> algo]
    /\ ret' = Algo_fmt(algo)
    /\ pc' = "formatted"
    /\ UNCHANGED <<seq_vars, depth, thread_vars, other_vars>>

\* The text just written, parsed.
ParseFormatted ==
    /\ pc = "formatted"
    /\ call' = [op |-> "parse", text |-> ret, algo |-> call.algo]
    /\ ret' = Algo_from_str(ret)
    /\ pc' = "parsed"
    /\ UNCHANGED <<seq_vars, depth, thread_vars, other_vars>>

\* Algo::from_str(text)
ParseText(text) ==
    /\ pc = "ready"
    /\ named = 0
    /\ applied = <<>>
    /\ call' = [op |-> "parse", text |-> text]
    /\ ret' = Algo_from_str(text)
    /\ pc' = "parsed"
    /\ UNCHANGED <<seq_vars, depth, thread_vars, other_vars>>

NextText ==
    \/ \E algo \in SeqsUpTo(MoveSet, MaxAlgoLen) : Format(algo)
    \/ ParseFormatted
    \/ \E text \in SeqsUpTo(Alphabet, MaxTextLen) : ParseText(text)

SpecText == Init /\ [][NextText]_vars

(***************************************************************************)
(* C23: parse(format(a)) = a                                               *)
(***************************************************************************)

\* The 18 move strings.
MoveString(m) ==
    <<m.face>> \o (IF m.turns = "Double" THEN <<"2">>
                   ELSE IF m.turns = "Counter" THEN <<"'">> ELSE <<>>)

MoveStrings == {MoveString(m) : m \in MoveSet}

MoveOfString(w) == CHOOSE m \in MoveSet : MoveString(m) = w

IsSpace(text, i) == text[i] \in WhiteSpace

\* The maximal runs <<i, j>> of non-whitespace characters of text.
Tokens(text) ==
    {r \in (1..Len(text)) \X (1..Len(text)) :
        /\ r[1] <= r[2]
        /\ \A k \in r[1]..r[2] : ~IsSpace(text, k)
        /\ r[1] = 1 \/ IsSpace(text, r[1] - 1)
        /\ r[2] = Len(text) \/ IsSpace(text, r[2] + 1)}

Word(text, r) == SubSeq(text, r[1], r[2])

\* The text is what format writes for algo: the move strings joined by
\* single spaces, nothing before the first and nothing after the last.
RECURSIVE Joined(_)
Joined(algo) ==
    IF algo = <<>> THEN <<>>
    ELSE IF Len(algo) = 1 THEN MoveString(algo[1])
    ELSE Joined(SubSeq(algo, 1, Len(algo) - 1)) \o <<" ">>
         \o MoveString(algo[Len(algo)])

\* C23: format writes each move as its face letter followed by nothing,
\* 2 or ', joined by single spaces with no trailing space; parse splits on
\* runs of whitespace (the empty string gives the empty Algo) and returns
\* the moves of the tokens, so parse(format(a)) = a; a token that is not one
\* of the 18 move strings makes parse fail with a ParseMoveError carrying
\* that token, and no Algo is produced.
C23_ParseFormat ==
    /\ pc = "formatted" =>
           /\ ret = Joined(call.algo)
           /\ ret # <<>> => ret[1] # " " /\ ret[Len(ret)] # " "
    /\ (pc = "parsed" /\ "algo" \in DOMAIN call) =>
           ret = [ok |-> TRUE, algo |-> call.algo]
    /\ pc = "parsed" =>
           LET toks == Tokens(call.text)
               bad == {r \in toks : Word(call.text, r) \notin MoveStrings}
           IN  IF bad = {}
               THEN /\ ret.ok
                    /\ Len(ret.algo) = Cardinality(toks)
                    /\ \A r \in toks :
                           ret.algo[Cardinality({q \in toks : q[1] <= r[1]})]
                               = MoveOfString(Word(call.text, r))
               ELSE LET first == CHOOSE r \in bad : \A q \in bad : r[1] <= q[1]
                    IN  /\ ~ret.ok
                        /\ DOMAIN ret = {"ok", "error"}
                        /\ ret.error.move_str = Word(call.text, first)

\* U2 R' was written as "U2 R'" and read back.
C23_Witness ==
    /\ pc = "parsed"
    /\ "algo" \in DOMAIN call
    /\ call.algo = <<Mv("U", "Double"), Mv("R", "Counter")>>
    /\ call.text = <<"U", "2", " ", "R", "'">>
    /\ ret.ok /\ ret.algo = call.algo

(***************************************************************************)
(* Projections of the states reached by moves                              *)
(***************************************************************************)

\* P::project(&state)
Project(P) ==
    /\ pc = "ready"
    /\ call' = [op |-> "project", P |-> P]
    /\ ret' = project(P, state)
    /\ pc' = "returned"
    /\ UNCHANGED <<seq_vars, depth, thread_vars, other_vars>>

\* Move::apply on a state that read_state returned.
ApplyMoveAfterRead(m) ==
    /\ pc = "ready"
    /\ named # 0
    /\ Len(applied) < Len(NamedInputs[named]) + MaxScramble - 1
    /\ state' = Apply(m, state)
    /\ applied' = Append(applied, m)
    /\ UNCHANGED <<other_vars, named, pc, call, ret, depth, thread_vars>>

NextProj ==
    \/ \E m \in Move : ApplyMove(m)
    \/ \E i \in 1..Len(NamedInputs) : ReadState(i)
    \/ \E m \in Move : ApplyMoveAfterRead(m)
    \/ \E P \in ProjTypes : Project(P)

SpecProj == Init /\ [][NextProj]_vars

Projected == pc = "returned" /\ call.op = "project"

(***************************************************************************)
(* C25: the bits of CornerUdProj, CornerFbProj, CornerRlProj               *)
(***************************************************************************)

CornerAxisTypes == {"CornerUdProj", "CornerFbProj", "CornerRlProj"}

AxisPair(P) ==
    CASE P = "CornerUdProj" -> <<"U", "D">>
      [] P = "CornerFbProj" -> <<"F", "B">>
      [] P = "CornerRlProj" -> <<"R", "L">>

\* The labels of the three stickers of corner c, the first of CORNERS being
\* corner 1.
CornerLabels(s, c) == {SlotAt(s, CORNERS[c][k]).face : k \in 1..3}

\* The bit of corner c in the packed byte: the first corner is shifted to
\* the highest bit.
CornerBit(packed, c) == (packed \div (2 ^ (8 - c))) % 2

\* C25 as stated: the bit of each corner records whether any of the
\* corner's three stickers carries the label of either face of the axis
\* pair, in one polarity or the other.
C25_EitherFaceOfPair ==
    (Projected /\ call.P \in CornerAxisTypes) =>
        \E carried \in {0, 1} :
            \A c \in 1..8 :
                CornerBit(ret.packed_faces, c) = carried
                    <=> (CornerLabels(state, c) \cap
                           {AxisPair(call.P)[1], AxisPair(call.P)[2]}) # {}

\* C25 amended: the bit of each corner is 0 when one of the corner's three
\* stickers carries the label of the first face of the pair (U, F or R) and
\* 1 when none does, which in a reachable state is when one carries the
\* label of the second face (D, B or L).
C25_FirstFaceOfPair ==
    (Projected /\ call.P \in CornerAxisTypes) =>
        /\ ret.packed_faces \in 0..255
        /\ \A c \in 1..8 :
               /\ CornerBit(ret.packed_faces, c) = 0
                      <=> AxisPair(call.P)[1] \in CornerLabels(state, c)
               /\ CornerBit(ret.packed_faces, c) = 1
                      <=> AxisPair(call.P)[2] \in CornerLabels(state, c)

\* After R the corners of the U face no longer all carry U: the byte of
\* CornerUdProj differs from the byte 00001111 of the solved state.
C25_Witness ==
    /\ Projected
    /\ call.P = "CornerUdProj"
    /\ applied = <<Mv("R", "Clockwise")>>
    /\ ret.packed_faces # 15
    /\ \E c \in 1..4 : CornerBit(ret.packed_faces, c) = 1

(***************************************************************************)
(* C27: moves permute the stickers                                         *)
(***************************************************************************)

\* The stickers of s with label f and direction d.
Carrying(s, f, d) ==
    {i \in Slots : SlotAt(s, i).face = f /\ SlotAt(s, i).direction = d}

NativeDirection(f) == SolvedDirections[FaceIdx(f) + 1]

EdgeSlots == {1, 3, 4, 6}

CornerSlots == {0, 2, 5, 7}

\* C27: in every state reached by moves the 48 stickers are those of the
\* solved state, each with its label and direction: 6 Clockwise and 6
\* Counter arrows, every arrow on a sticker whose label has that native
\* direction, every arrow on an edge slot (1, 3, 4, 6) and every corner slot
\* (0, 2, 5, 7) Neutral.
C27_StickersPermuted ==
    /\ Len(state) = 48
    /\ \A f \in Face : \A d \in Direction :
           Cardinality(Carrying(state, f, d)) = Cardinality(Carrying(solved, f, d))
    /\ Cardinality({i \in Slots : SlotAt(state, i).direction = "Clockwise"}) = 6
    /\ Cardinality({i \in Slots : SlotAt(state, i).direction = "Counter"}) = 6
    /\ \A i \in Slots :
           /\ SlotAt(state, i).direction # "Neutral" =>
                  /\ SlotAt(state, i).direction = NativeDirection(SlotAt(state, i).face)
                  /\ (i % 8) \in EdgeSlots
           /\ (i % 8) \in CornerSlots => SlotAt(state, i).direction = "Neutral"

\* After D the Clockwise arrow of the R face stands on another face, and a
\* face holds a Clockwise and a Counter arrow.
C27_Witness ==
    /\ applied = <<Mv("D", "Clockwise")>>
    /\ \E i \in Slots :
           /\ SlotAt(state, i).face = "R"
           /\ SlotAt(state, i).direction = "Clockwise"
           /\ FaceOrder[(i \div 8) + 1] # "R"
    /\ \E f \in Face : is_locked(state, f)

(***************************************************************************)
(* C30: is_solved and the directions                                       *)
(***************************************************************************)

\* C30: in every reachable state is_solved(), which compares face labels
\* only, is true exactly when the state equals State::solved() on all 48
\* stickers, directions included.
C30_SolvedIffEqual == is_solved(state) <=> state = solved

\* Two moves led back to a state that is_solved accepts.
C30_Witness ==
    /\ Len(applied) = 2
    /\ applied[1] = Mv("F", "Clockwise")
    /\ is_solved(state)
    /\ state = solved

(***************************************************************************)
(* C22 and C26: states with the same projection                            *)
(***************************************************************************)

\* The move sequences of exactly n moves, in a sequence.
RECURSIVE AlgosOfLen(_)
AlgosOfLen(n) ==
    IF n = 0 THEN << <<>> >>
    ELSE LET shorter == AlgosOfLen(n - 1)
         IN  Eager([k \in 1..(Len(shorter) * 18) |->
                 Append(shorter[((k - 1) \div 18) + 1], ALL_MOVES[((k - 1) % 18) + 1])])

RECURSIVE AlgosUpTo(_)
AlgosUpTo(n) == IF n = 0 THEN AlgosOfLen(0) ELSE AlgosUpTo(n - 1) \o AlgosOfLen(n)

\* The named algorithms, each followed by up to MaxScramble - 1 moves.
NamedThenMoves ==
    LET tails == AlgosUpTo(MaxScramble - 1)
    IN  Eager([k \in 1..(Len(NamedInputs) * Len(tails)) |->
            NamedInputs[((k - 1) \div Len(tails)) + 1] \o tails[((k - 1) % Len(tails)) + 1]])

\* Every algorithm by which a state is reached, and the states.
ReachedAlgos == AlgosUpTo(MaxScramble) \o NamedThenMoves

ReachedStates == Eager([k \in 1..Len(ReachedAlgos) |-> state_from_moves(ReachedAlgos[k])])

\* P::project of every state reached, P being ProjOrder[p].
ProjOrder ==
    <<"LockProj", "CornerProj", "ArrowAxisProj", "CoUdProj", "CoFbProj", "CoRlProj",
      "CornerUdProj", "CornerFbProj", "CornerRlProj">>

ProjIdx(P) == CHOOSE p \in 1..Len(ProjOrder) : ProjOrder[p] = P

Projections ==
    Eager([p \in 1..Len(ProjOrder) |->
        Eager([k \in 1..Len(ReachedStates) |-> project(ProjOrder[p], ReachedStates[k])])])

\* The states reached that P does not tell from the state just projected.
SameProjection ==
    {k \in 1..Len(ReachedStates) : Projections[ProjIdx(call.P)][k] = ret}

\* C22: for every projection type P, any two reachable states s and t with
\* P::project(s) = P::project(t) and any move m,
\* P::project(m(s)) = P::project(m(t)).
C22_ProjectionOfMove ==
    Projected =>
        /\ \E k \in SameProjection : ReachedStates[k] = state
        /\ \A k \in SameProjection : \A m \in Move :
               project(call.P, Apply(m, state))
                   = project(call.P, Apply(m, ReachedStates[k]))

\* CornerProj does not tell U2 D2 F2 U2 D2 B2 followed by a move from the
\* move alone, although the states differ.
C22_Witness ==
    /\ Projected
    /\ call.P = "CornerProj"
    /\ named = 9
    /\ Len(applied) = Len(NamedInputs[9]) + 1
    /\ \E k \in SameProjection :
           /\ ReachedStates[k] # state
           /\ \E m \in Move : Apply(m, ReachedStates[k]) # Apply(m, state)

\* C26: for every projection type P and reachable states s and t,
\* P::project(s) = P::project(t) implies that is_locked(f) is the same in s
\* and t for each of the six faces: the projection, which holds the
\* directions at slots 1, 3, 4, 6 only, decides the locks that is_locked
\* reads from all 8 stickers.
C26_ProjectionDecidesLocks ==
    Projected =>
        \A k \in SameProjection : \A f \in Face :
            is_locked(state, f) <=> is_locked(ReachedStates[k], f)

\* Two different states with the same LockProj, both with a locked face.
C26_Witness ==
    /\ Projected
    /\ call.P = "LockProj"
    /\ \E f \in Face : is_locked(state, f)
    /\ \E k \in SameProjection : ReachedStates[k] # state

(***************************************************************************)
(* C24: the table of generate is exact                                     *)
(***************************************************************************)

\* The states reached from solved by exactly d moves, each of a face that
\* is unlocked when it is turned; Levels[d + 1] is the set for d.
RECURSIVE LevelsUpTo(_)
LevelsUpTo(d) ==
    IF d = 0 THEN <<{solved}>>
    ELSE LET lower == LevelsUpTo(d - 1)
         IN  Append(lower,
                    UNION {{Apply(m, s) : m \in {mm \in Move : ~is_locked(s, mm.face)}} :
                              s \in lower[d]})

Levels == LevelsUpTo(MaxGenDepth)

\* Their projections: ValuesAt[p][d + 1] for ProjOrder[p] and d moves.
ValuesAt ==
    Eager([p \in 1..Len(ProjOrder) |->
        Eager([d \in 1..Len(Levels) |-> {project(ProjOrder[p], s) : s \in Levels[d]}])])

\* The least number of unlocked-face moves that reaches a state with
\* projection value v.
MinMoves(P, v) == CHOOSE d \in 0..MaxGenDepth :
                      /\ v \in ValuesAt[ProjIdx(P)][d + 1]
                      /\ \A e \in 0..(d - 1) : v \notin ValuesAt[ProjIdx(P)][e + 1]

\* generate has just returned.
Generated == TableComplete /\ pc = "ready" /\ applied = <<>>

\* C24: for every projection type P and depth D, the table built by
\* generate(D) holds exactly the P-values of the states reachable from
\* solved by at most D moves of unlocked faces, each with the least length
\* of such a sequence: keeping one (MoveGen, State) pair per value, the
\* first found, loses no value and stores no larger distance.
C24_TableExact ==
    Generated =>
        /\ DOMAIN heur.result.h.table
               = UNION {ValuesAt[ProjIdx(heur.P)][d + 1] : d \in 0..heur.depth}
        /\ \A v \in DOMAIN heur.result.h.table :
               heur.result.h.table[v] = MinMoves(heur.P, v)

\* The table of LockProj at the greatest depth: fewer values than states
\* reached, so some value was found a second time and not queued again.
C24_Witness ==
    /\ Generated
    /\ heur.P = "LockProj"
    /\ heur.depth = MaxGenDepth
    /\ TableLen < Cardinality(UNION {Levels[d] : d \in 1..Len(Levels)})
    /\ \E v \in DOMAIN heur.result.h.table : heur.result.h.table[v] = MaxGenDepth

(***************************************************************************)
(* C28: the parallel calls terminate                                       *)
(***************************************************************************)

\* A step of the thread of worker i.
WorkerStep(i) == WorkerRun(i) \/ WorkerPanic(i) \/ WorkerDropSender(i) \/ WorkerExit(i)

\* A step of the calling thread inside parallel_search.
CoordinatorStep == Recv \/ RecvEnd \/ Join \/ JoinUnwinding

\* Every thread that can take a step is scheduled in the end: the workers
\* are operating-system threads and the caller runs on its own.
SpecParFair ==
    /\ SpecPar
    /\ \A i \in 1..Len(ALL_MOVES) : WF_vars(WorkerStep(i))
    /\ WF_vars(CoordinatorStep)

\* The call has ended: it returned, or the panic of a worker left it.
CallEnded == pc \in {"returned", "propagated", "aborted"}

\* C28: every call of solve or proj_solve ends, whether or not a solution
\* was found: once the workers are spawned and the caller has dropped its
\* sender, every worker finishes and drops its clone, the receive loop ends
\* and the call returns; it returns normally when no worker panics.
C28_CallTerminates ==
    (pc = "receiving") ~>
        (/\ CallEnded
         /\ (\A i \in 1..Len(workers) : workers[i].status = "terminated") => pc = "returned")

\* A call with workers of which none found a solution has returned None.
C28_Witness ==
    /\ pc = "returned"
    /\ call.op = "parallel"
    /\ call.depth >= 1
    /\ workers # <<>>
    /\ \A i \in 1..Len(workers) :
           ~workers[i].found /\ workers[i].status = "terminated" /\ workers[i].joined
    /\ ret = None
====
